---- MODULE Spec2Model ----
(***************************************************************************)
(* Schema-resolving streaming aggregation pipelines of the repository      *)
(* (ENEM, SAEB, PISA extraction scripts), modelled as state machines.      *)
(*                                                                         *)
(* Numbers are exact rationals <<n, d>> with d > 0 in lowest terms; the    *)
(* pandas missing value NaN is <<0, 0>> (the result of 0.0 / 0) and an     *)
(* infinite quotient is <<1, 0>>.                                          *)
(***************************************************************************)
EXTENDS Integers, Sequences, FiniteSets, TLC

\* Longest input file (rows) the model streams.
MaxRows == 3

NaN == <<0, 0>>
Inf == <<1, 0>>

IsNaN(x) == x[2] = 0 /\ x[1] = 0
NotNa(x) == ~IsNaN(x)

RECURSIVE GCD(_, _)
GCD(a, b) == IF b = 0 THEN a ELSE GCD(b, a % b)

\* float division n / d as pandas evaluates it (0/0 is NaN, x/0 is inf)
Quot(n, d) ==
    IF d = 0 THEN (IF n = 0 THEN NaN ELSE Inf)
    ELSE LET g == GCD(n, d) IN <<n \div g, d \div g>>

Num(n) == <<n, 1>>

\* x + y and x / y on values; NaN propagates
RAdd(x, y) ==
    IF IsNaN(x) \/ IsNaN(y) THEN NaN
    ELSE Quot(x[1] * y[2] + y[1] * x[2], x[2] * y[2])

RDiv(x, y) ==
    IF IsNaN(x) \/ IsNaN(y) THEN NaN
    ELSE Quot(x[1] * y[2], x[2] * y[1])

RLess(x, y) == x[1] * y[2] < y[1] * x[2]

\* Series.sum() (skipna) and Series.count() over a sequence of values
RECURSIVE SumSkipNa(_)
SumSkipNa(s) ==
    IF s = << >> THEN Num(0)
    ELSE IF IsNaN(Head(s)) THEN SumSkipNa(Tail(s))
    ELSE RAdd(Head(s), SumSkipNa(Tail(s)))

RECURSIVE CountNotNa(_)
CountNotNa(s) ==
    IF s = << >> THEN 0
    ELSE (IF IsNaN(Head(s)) THEN 0 ELSE 1) + CountNotNa(Tail(s))

\* Series.mean() (skipna): NaN for an all-missing series
MeanSkipNa(s) == RDiv(SumSkipNa(s), Num(CountNotNa(s)))

SeqMap(Op(_), s) == [i \in 1..Len(s) |-> Op(s[i])]

RECURSIVE SelectIdx(_, _)
\* the subsequence of s at the rows where keep[i] holds (boolean indexing)
SelectIdx(s, keep) ==
    IF s = << >> THEN << >>
    ELSE (IF Head(keep) THEN <<Head(s)>> ELSE << >>) \o SelectIdx(Tail(s), Tail(keep))

RECURSIVE InsertDesc(_, _, _)
\* insert row r into the descending sequence s after every row whose key is
\* not smaller (missing keys last): one step of a stable sort on column col
InsertDesc(r, s, col) ==
    IF s = << >> THEN <<r>>
    ELSE IF NotNa(r.v[col]) /\ (IsNaN(Head(s).v[col]) \/ RLess(Head(s).v[col], r.v[col]))
         THEN <<r>> \o s
         ELSE <<Head(s)>> \o InsertDesc(r, Tail(s), col)

RECURSIVE SortDesc(_, _)
\* DataFrame.sort_values(col, ascending=False): NaN keys last, ties keep order
SortDesc(s, col) ==
    IF s = << >> THEN << >>
    ELSE InsertDesc(s[Len(s)], SortDesc(SubSeq(s, 1, Len(s) - 1), col), col)

RECURSIVE SeqSum(_)
SeqSum(s) == IF s = << >> THEN 0 ELSE Head(s) + SeqSum(Tail(s))

Range(s) == {s[i] : i \in 1..Len(s)}

\* sequences over S of length at most n
SeqsUpTo(S, n) == UNION {[1..k -> S] : k \in 0..n}

(***************************************************************************)
(* State                                                                   *)
(***************************************************************************)
VARIABLES
    prog,        \* which script is running
    header,      \* physical column names of the input file, in file order
    rows,        \* the data rows of the input file
    request,     \* the run's parameters (filter choice, requested columns)
    pc,          \* position of the run
    resolved,    \* columns resolved from the header
    pos,         \* rows consumed from the stream so far
    chunk_aggs,  \* per-chunk partial aggregates collected so far
    df_final,    \* the finalized table of the current run
    written,     \* tables exported so far
    log          \* diagnostics printed so far

vars == <<prog, header, rows, request, pc, resolved, pos, chunk_aggs, df_final, written, log>>

\* the region keys of the modelled files, in sort order
UFS == <<"AM", "SP">>
NoCol == "<none>"

(***************************************************************************)
(* src/cog/04_process_enem_historical.py                                   *)
(***************************************************************************)
POSSIBLE_UF_COLS == <<"SG_UF_RESIDENCIA", "UF_RESIDENCIA", "NO_UF_RESIDENCIA", "SG_UF_ESC", "UF_ESC">>

POSSIBLE_SCORES == <<"NU_NOTA_MT", "NU_NOTA_LC", "NU_NOTA_CH", "NU_NOTA_CN", "NU_NOTA_REDACAO">>

SCORE_MAP ==
    [c \in Range(POSSIBLE_SCORES) |->
        CASE c = "NU_NOTA_MT" -> "Math"
          [] c = "NU_NOTA_LC" -> "Language"
          [] c = "NU_NOTA_CH" -> "Humanities"
          [] c = "NU_NOTA_CN" -> "Natural_Sciences"
          [] c = "NU_NOTA_REDACAO" -> "Essay"]

UF_TO_REGION(uf) ==
    CASE uf \in {"AC", "AP", "AM", "PA", "RO", "RR", "TO"} -> "N"
      [] uf \in {"AL", "BA", "CE", "MA", "PB", "PE", "PI", "RN", "SE"} -> "NE"
      [] uf \in {"DF", "GO", "MT", "MS"} -> "CO"
      [] uf \in {"ES", "MG", "RJ", "SP"} -> "SE"
      [] uf \in {"PR", "RS", "SC"} -> "S"
      [] OTHER -> "NaN"

\* first candidate name present in the header, or NoCol
FirstIn(cands, hdr) ==
    IF \E i \in 1..Len(cands) : cands[i] \in Range(hdr)
    THEN cands[CHOOSE i \in 1..Len(cands) :
                  /\ cands[i] \in Range(hdr)
                  /\ \A j \in 1..(i - 1) : cands[j] \notin Range(hdr)]
    ELSE NoCol

identify_columns(hdr) ==
    [uf_col |-> FirstIn(POSSIBLE_UF_COLS, hdr),
     score_cols |-> SelectSeq(POSSIBLE_SCORES, LAMBDA c : c \in Range(hdr))]

\* a cell holding text that is no number
TextCell == <<0, -1>>

\* pd.to_numeric(errors='coerce')
to_numeric(cell) == IF cell[2] < 0 THEN NaN ELSE cell

\* a wrong cleaning step: zeros are kept as scores
ReplaceZeroKept(v) == v

\* a wrong cleaning step: missing scores become zeros (fillna(0))
ReplaceZeroFilled(v) == IF IsNaN(v) THEN Num(0) ELSE v

\* .replace(0, np.nan)
ReplaceZero(v) == IF v = Num(0) THEN NaN ELSE v

\* steps A-C of the chunk loop on one row: the cleaned scores (under their
\* English names) and the row-wise general mean
CleanRow(r, score_cols) ==
    LET val(c) == ReplaceZero(to_numeric(r.sc[c]))
        vs == [i \in 1..Len(score_cols) |-> val(score_cols[i])]
    IN  [uf |-> r.uf,
         v |-> [n \in {SCORE_MAP[score_cols[i]] : i \in 1..Len(score_cols)} \cup {"Mean_General"} |->
                  IF n = "Mean_General" THEN MeanSkipNa(vs)
                  ELSE val(CHOOSE c \in Range(score_cols) : SCORE_MAP[c] = n)]]

\* chunk.groupby(key)[cols].agg(['sum', 'count']): one entry per key value
\* occurring in the chunk
GroupSumCount(chunk, cols) ==
    [g \in {chunk[i].uf : i \in 1..Len(chunk)} |->
        [c \in cols |->
            LET s == SeqMap(LAMBDA r : r.v[c], SelectSeq(chunk, LAMBDA r : r.uf = g))
            IN  [sum |-> SumSkipNa(s), count |-> CountNotNa(s)]]]

ChunkAgg(chunk, score_cols) ==
    LET cleaned == SeqMap(LAMBDA r : CleanRow(r, score_cols), chunk)
        current_scores == {SCORE_MAP[score_cols[i]] : i \in 1..Len(score_cols)} \cup {"Mean_General"}
    IN  GroupSumCount(cleaned, current_scores)

\* a wrong consolidation: the first partial aggregate of each key is kept
ConsolidateFirst(aggs, cols) ==
    [g \in UNION {DOMAIN aggs[i] : i \in 1..Len(aggs)} |->
        [c \in cols |->
            LET parts == SelectSeq(aggs, LAMBDA a : g \in DOMAIN a)
            IN  [sum |-> parts[1][g][c].sum, count |-> parts[1][g][c].count]]]

\* a wrong consolidation: the partial sums of each key are averaged
ConsolidateMean(aggs, cols) ==
    [g \in UNION {DOMAIN aggs[i] : i \in 1..Len(aggs)} |->
        [c \in cols |->
            LET parts == SelectSeq(aggs, LAMBDA a : g \in DOMAIN a)
            IN  [sum |-> MeanSkipNa(SeqMap(LAMBDA a : a[g][c].sum, parts)),
                 count |-> SeqSum(SeqMap(LAMBDA a : a[g][c].count, parts))]]]

\* pd.concat(aggs).groupby(level=0).sum(): key-wise sum of the partial
\* sums and counts; a key missing from a partial aggregate adds nothing
Consolidate(aggs, cols) ==
    [g \in UNION {DOMAIN aggs[i] : i \in 1..Len(aggs)} |->
        [c \in cols |->
            LET parts == SelectSeq(aggs, LAMBDA a : g \in DOMAIN a)
            IN  [sum |-> SumSkipNa(SeqMap(LAMBDA a : a[g][c].sum, parts)),
                 count |-> SeqSum(SeqMap(LAMBDA a : a[g][c].count, parts))]]]

\* every group key of the modelled files, in the order groupby sorts them
KeyOrder == <<"", "AM", "BR", "North", "SP", "South", "XX">>

\* the keys of a table in sort order
SortedKeys(keys) == SelectSeq(KeyOrder, LAMBDA g : g \in keys)

\* steps 3-4 of process_year: means, student count, region, row order
Finalize(final_agg, cols) ==
    LET keys == SortedKeys(DOMAIN final_agg)
        row(g) == [UF |-> g,
                   Region |-> UF_TO_REGION(g),
                   v |-> [c \in cols \cup {"Student_Count"} |->
                            IF c = "Student_Count"
                            THEN Num(final_agg[g]["Mean_General"].count)
                            ELSE RDiv(final_agg[g][c].sum, Num(final_agg[g][c].count))]]
    IN  SortDesc(SeqMap(row, keys), "Mean_General")

(***************************************************************************)
(* src/ind/lib/safeguard.py                                                *)
(***************************************************************************)
ColumnsOf(df) == IF df = << >> THEN {} ELSE DOMAIN df[1].v

\* the values of column col of a table, as a sequence
Column(df, col) == SeqMap(LAMBDA r : r.v[col], df)

\* DataGuard.check_range: an error for each listed column that is in the table
\* and whose smallest value is below min_val or largest above max_val
check_range(df, columns, min_val, max_val) ==
    {col \in columns :
        /\ col \in ColumnsOf(df)
        /\ \E i \in 1..Len(df) :
              /\ NotNa(df[i].v[col])
              /\ (RLess(df[i].v[col], Num(min_val)) \/ RLess(Num(max_val), df[i].v[col]))}

\* DataGuard.check_historical_consistency: TRUE when the control states'
\* mean exceeds the high performers' mean by more than 10%
check_historical_consistency(df, score_col) ==
    LET highs == SelectSeq(df, LAMBDA r : r.UF \in {"SC", "SP", "DF"})
        controls == SelectSeq(df, LAMBDA r : r.UF \in {"AM", "PA", "MA"})
        avg_high == MeanSkipNa(Column(highs, score_col))
        avg_control == MeanSkipNa(Column(controls, score_col))
    IN  /\ highs # << >>
        /\ controls # << >>
        /\ NotNa(avg_high)
        /\ NotNa(avg_control)
        /\ avg_control[1] * avg_high[2] * 10 > avg_high[1] * 11 * avg_control[2]

\* the errors list of the guard process_year builds
GuardErrors(df) ==
    check_range(df, {"Math", "Language"}, 350, 800)
        \cup (IF check_historical_consistency(df, "Mean_General") THEN {"CONSISTENCY"} ELSE {})

\* a wrong validate: errors are printed and the audit passes
validate_lenient(errors, strict) == "true"

\* DataGuard.validate: "raise" under strict with errors, else whether clean
validate(errors, strict) ==
    IF errors # {} THEN (IF strict THEN "raise" ELSE "false") ELSE "true"

(***************************************************************************)
(* process_year of src/cog/04_process_enem_historical.py                   *)
(***************************************************************************)
CurrentScores(score_cols) ==
    {SCORE_MAP[score_cols[i]] : i \in 1..Len(score_cols)} \cup {"Mean_General"}

\* header read and identify_columns; the run ends when a column is missing
H_Start ==
    /\ prog = "enem_historical"
    /\ pc = "start"
    /\ resolved' = identify_columns(header)
    /\ IF resolved'.uf_col = NoCol \/ resolved'.score_cols = << >>
       THEN /\ pc' = "done"
            /\ log' = Append(log, "CRITICAL Missing columns")
       ELSE /\ pc' = "stream"
            /\ log' = log
    /\ UNCHANGED <<prog, header, rows, request, pos, chunk_aggs, df_final, written>>

\* one iteration of the chunk loop: the reader hands over the next n rows
\* (a header-only file yields a single empty chunk)
H_ReadChunk ==
    /\ prog = "enem_historical"
    /\ pc = "stream"
    /\ \E n \in 0..(Len(rows) - pos) :
          /\ (n = 0) <=> (rows = << >> /\ chunk_aggs = << >>)
          /\ pos' = pos + n
          /\ chunk_aggs' = Append(chunk_aggs,
                                  ChunkAgg(SubSeq(rows, pos + 1, pos + n), resolved.score_cols))
    /\ UNCHANGED <<prog, header, rows, request, pc, resolved, df_final, written, log>>

\* the reader is exhausted: consolidate the partial aggregates and finalize
H_Consolidate ==
    /\ prog = "enem_historical"
    /\ pc = "stream"
    /\ pos = Len(rows)
    /\ chunk_aggs # << >>
    /\ df_final' = Finalize(Consolidate(chunk_aggs, CurrentScores(resolved.score_cols)),
                            CurrentScores(resolved.score_cols))
    /\ pc' = "audit"
    /\ UNCHANGED <<prog, header, rows, request, resolved, pos, chunk_aggs, written, log>>

\* the safeguard, when its import succeeded, then the export
H_Export ==
    /\ prog = "enem_historical"
    /\ pc = "audit"
    /\ \E DataGuard \in BOOLEAN :
          IF DataGuard /\ validate(GuardErrors(df_final), TRUE) = "raise"
          THEN /\ log' = Append(log, "CRITICAL ERROR")
               /\ written' = written
          ELSE /\ written' = Append(written, [name |-> "enem_table", table |-> df_final])
               /\ log' = Append(log, "SUCCESS")
    /\ pc' = "done"
    /\ UNCHANGED <<prog, header, rows, request, resolved, pos, chunk_aggs, df_final>>

\* the input files of the model: headers with and without the region and
\* score columns, rows holding missing, zero and positive scores
HeadersH ==
    {<<"SG_UF_RESIDENCIA", "NU_NOTA_MT", "NU_NOTA_LC">>,
     <<"SG_UF_RESIDENCIA", "NU_NOTA_MT">>,
     <<"NU_NOTA_MT">>,
     <<"SG_UF_RESIDENCIA">>}

CellsH(col, hdr) ==
    IF col \notin Range(hdr) THEN {NaN}
    ELSE IF col = "NU_NOTA_LC" THEN {NaN, Num(600)}
    ELSE IF "NU_NOTA_LC" \in Range(hdr) THEN {Num(0), Num(500)}
    ELSE {NaN, Num(0), Num(500), Num(600)}

RowsH(hdr) ==
    {[uf |-> u, sc |-> [c \in {"NU_NOTA_MT", "NU_NOTA_LC"} |-> IF c = "NU_NOTA_MT" THEN m ELSE l]] :
        u \in (IF "SG_UF_RESIDENCIA" \in Range(hdr) THEN Range(UFS) ELSE {""}),
        m \in CellsH("NU_NOTA_MT", hdr),
        l \in CellsH("NU_NOTA_LC", hdr)}

Init ==
    /\ prog = "enem_historical"
    /\ header \in HeadersH
    /\ rows \in SeqsUpTo(RowsH(header), MaxRows)
    /\ request = "none"
    /\ pc = "start"
    /\ resolved = [uf_col |-> NoCol, score_cols |-> << >>]
    /\ pos = 0
    /\ chunk_aggs = << >>
    /\ df_final = << >>
    /\ written = << >>
    /\ log = << >>

Next ==
    \/ H_Start
    \/ H_ReadChunk
    \/ H_Consolidate
    \/ H_Export

Spec == Init /\ [][Next]_vars

\* the table process_year finalizes when the whole file is one chunk
SingleChunkTable ==
    Finalize(Consolidate(<<ChunkAgg(rows, resolved.score_cols)>>, CurrentScores(resolved.score_cols)),
             CurrentScores(resolved.score_cols))

Cols == CurrentScores(resolved.score_cols)

Streamed == prog = "enem_historical" /\ pc \in {"audit", "done"} /\ chunk_aggs # << >>

\* merging two accumulator maps, as the consolidation step merges them
Merge2(A, B) == Consolidate(<<A, B>>, Cols)

\* C2: associative merge - for the partial aggregates A, B, C of three chunks,
\* merging (A with B) with C gives the same accumulator map as merging A with
\* (B with C), both equal the map the run consolidated, and the finalized
\* tables agree; a key absent from a map adds nothing
AssociativeMerge ==
    (Streamed /\ Len(chunk_aggs) = 3) =>
        LET A == chunk_aggs[1]
            B == chunk_aggs[2]
            C == chunk_aggs[3]
        IN  /\ Merge2(Merge2(A, B), C) = Merge2(A, Merge2(B, C))
            /\ Merge2(A, Merge2(B, C)) = Consolidate(chunk_aggs, Cols)
            /\ Finalize(Merge2(Merge2(A, B), C), Cols) = df_final

\* three chunks were merged, the first and the last holding different sums for
\* one state and another state being absent from one of the maps
AssociativeMergeWitness ==
    /\ Streamed
    /\ pc = "done"
    /\ Len(chunk_aggs) = 3
    /\ \E g \in DOMAIN chunk_aggs[1] \cap DOMAIN chunk_aggs[3] :
          chunk_aggs[1][g]["Math"].sum # chunk_aggs[3][g]["Math"].sum
    /\ \E g \in DOMAIN chunk_aggs[1] : g \notin DOMAIN chunk_aggs[2]

\* the rows of state g whose score in physical column c is present and not 0
Scored(g, c) ==
    SelectSeq(rows, LAMBDA r : r.uf = g /\ NotNa(r.sc[c]) /\ r.sc[c] # Num(0) /\ r.sc[c] # TextCell)

PhysicalOf(n) == CHOOSE c \in Range(POSSIBLE_SCORES) : SCORE_MAP[c] = n

ExampleRows ==
    <<[uf |-> "AM", sc |-> [c \in {"NU_NOTA_MT", "NU_NOTA_LC"} |-> IF c = "NU_NOTA_MT" THEN Num(600) ELSE NaN]],
      [uf |-> "AM", sc |-> [c \in {"NU_NOTA_MT", "NU_NOTA_LC"} |-> IF c = "NU_NOTA_MT" THEN Num(0) ELSE NaN]],
      [uf |-> "SP", sc |-> [c \in {"NU_NOTA_MT", "NU_NOTA_LC"} |-> IF c = "NU_NOTA_MT" THEN Num(500) ELSE NaN]]>>

IsExample == rows = ExampleRows /\ header = <<"SG_UF_RESIDENCIA", "NU_NOTA_MT">>

\* the finalized row of state g
RowOf(df, g) == df[CHOOSE i \in 1..Len(df) : df[i].UF = g]

\* every rows of a state with a non-zero score counts, a zero score does not
ZeroContributesNothing ==
    Streamed =>
        LET total == Consolidate(chunk_aggs, Cols)
        IN  \A g \in DOMAIN total : \A n \in Cols \ {"Mean_General"} :
              /\ total[g][n].count = Len(Scored(g, PhysicalOf(n)))
              /\ total[g][n].sum = SumSkipNa(SeqMap(LAMBDA r : r.sc[PhysicalOf(n)], Scored(g, PhysicalOf(n))))

\* the accumulators of the ENEM scripts hold a sum and a count only, and the
\* finalized table has no weighted column
NoWeightAccounting ==
    Streamed =>
        /\ \A i \in 1..Len(chunk_aggs) : \A g \in DOMAIN chunk_aggs[i] : \A n \in Cols :
              DOMAIN chunk_aggs[i][g][n] = {"sum", "count"}
        /\ ColumnsOf(df_final) \subseteq Cols \cup {"Student_Count"}

ExampleSimpleMeans ==
    (Streamed /\ IsExample) =>
        /\ Len(df_final) = 2
        /\ RowOf(df_final, "AM").v["Math"] = Num(600)
        /\ Consolidate(chunk_aggs, Cols)["AM"]["Math"].count = 1
        /\ RowOf(df_final, "SP").v["Math"] = Num(500)

\* C4 (amended): a row whose score is exactly 0 adds nothing to that field's
\* count and sum for its state while non-zero scores add fully; the ENEM
\* scripts keep no weight accumulators and report no weighted mean; the rows
\* (AM,600),(AM,0),(SP,500) give AM mean 600 with count 1 and SP mean 500
ZeroAsMissing == ZeroContributesNothing /\ NoWeightAccounting /\ ExampleSimpleMeans

\* the example file was streamed to the end and its table written
ZeroAsMissingWitness ==
    /\ Streamed
    /\ pc = "done"
    /\ IsExample
    /\ written # << >>

\* C4 as stated: in addition the example's table reports a weighted mean, 600
\* for AM and 500 for SP
ZeroAsMissingWeighted ==
    /\ ZeroContributesNothing
    /\ ExampleSimpleMeans
    /\ (Streamed /\ IsExample) =>
          /\ "Math_Weighted" \in ColumnsOf(df_final)
          /\ RowOf(df_final, "AM").v["Math_Weighted"] = Num(600)
          /\ RowOf(df_final, "SP").v["Math_Weighted"] = Num(500)

\* the file with every explicit 0 score replaced by a missing value
ZerosAbsent(rs) ==
    SeqMap(LAMBDA r : [r EXCEPT !.sc = [c \in DOMAIN r.sc |-> IF r.sc[c] = Num(0) THEN NaN ELSE r.sc[c]]], rs)

\* the table process_year finalizes for the rows rs read as one chunk
TableOf(rs) ==
    Finalize(Consolidate(<<ChunkAgg(rs, resolved.score_cols)>>, Cols), Cols)

MaxRowsU == 2

LogicalOrder == <<"UF", "SCHOOL_ID", "STATUS", "CN", "CH", "LC", "MT", "RED">>

TARGET_COLS ==
    [k \in Range(LogicalOrder) |->
        CASE k = "UF" -> <<"SG_UF_PROVA", "UF_PROVA", "SG_UF_RESIDENCIA">>
          [] k = "SCHOOL_ID" -> <<"CO_ESCOLA", "ID_ESCOLA">>
          [] k = "STATUS" -> <<"TP_ST_CONCLUSAO">>
          [] k = "CN" -> <<"NU_NOTA_CN">>
          [] k = "CH" -> <<"NU_NOTA_CH">>
          [] k = "LC" -> <<"NU_NOTA_LC">>
          [] k = "MT" -> <<"NU_NOTA_MT">>
          [] k = "RED" -> <<"NU_NOTA_REDACAO">>]

\* str.upper() on the column names of the modelled files
Upper(h) ==
    CASE h = "co_escola" -> "CO_ESCOLA"
      [] h = "sg_uf_prova" -> "SG_UF_PROVA"
      [] h = "id_uf" -> "ID_UF"
      [] OTHER -> h

\* EnemPipeline.find_col_flexible: the header column equal, ignoring case, to
\* the first candidate that has one (the last such column when several
\* differ only in case)
find_col_flexible(hdr, candidates) ==
    LET hit(c) == {i \in 1..Len(hdr) : Upper(hdr[i]) = Upper(c)}
        cands == SelectSeq(candidates, LAMBDA c : hit(c) # {})
    IN  IF cands = << >> THEN NoCol
        ELSE hdr[CHOOSE i \in hit(cands[1]) : \A j \in hit(cands[1]) : j <= i]

\* col_map: physical column -> logical name (a later logical name replaces an
\* earlier one mapped from the same column)
EnemColMap(hdr) ==
    LET found == {k \in Range(LogicalOrder) : find_col_flexible(hdr, TARGET_COLS[k]) # NoCol}
    IN  [p \in {find_col_flexible(hdr, TARGET_COLS[k]) : k \in found} |->
            LogicalOrder[CHOOSE i \in 1..Len(LogicalOrder) :
                /\ LogicalOrder[i] \in found
                /\ find_col_flexible(hdr, TARGET_COLS[LogicalOrder[i]]) = p
                /\ \A j \in (i + 1)..Len(LogicalOrder) :
                      LogicalOrder[j] \in found =>
                          find_col_flexible(hdr, TARGET_COLS[LogicalOrder[j]]) # p]]

Mapped(col_map) == {col_map[p] : p \in DOMAIN col_map}

\* a wrong choice of modes: a mode whose column is missing is replaced by the
\* other mode
EnemModesSwapped(filter_choice, col_map) ==
    IF "STATUS" \in Mapped(col_map) THEN <<"STRICT">>
    ELSE IF "SCHOOL_ID" \in Mapped(col_map) THEN <<"PROXY">>
    ELSE << >>

\* the modes the run executes, in order
EnemModes(filter_choice, col_map) ==
    (IF filter_choice \in {"STRICT", "BOTH"} /\ "STATUS" \in Mapped(col_map) THEN <<"STRICT">> ELSE << >>)
        \o (IF filter_choice \in {"PROXY", "BOTH"} /\ "SCHOOL_ID" \in Mapped(col_map) THEN <<"PROXY">> ELSE << >>)

score_cols_U == <<"CN", "CH", "LC", "MT", "RED">>

\* the physical column mapped to logical name k
PhysOf(col_map, k) == CHOOSE p \in DOMAIN col_map : col_map[p] = k

\* the value of logical column k in row r (the row after chunk.rename)
Cell(r, col_map, k) == r.sc[PhysOf(col_map, k)]

\* the filter of one mode applied to a row
EnemKeep(r, col_map, mode) ==
    IF mode = "STRICT" THEN Cell(r, col_map, "STATUS") = Num(2)
    ELSE NotNa(Cell(r, col_map, "SCHOOL_ID"))

valid_scores(col_map) == SelectSeq(score_cols_U, LAMBDA c : c \in Mapped(col_map))

\* the row after numeric coercion, with its general mean and a count of one
EnemCleanRow(r, col_map) ==
    LET vs == valid_scores(col_map)
        val(c) == to_numeric(Cell(r, col_map, c))
    IN  [uf |-> r.uf,
         v |-> [c \in Range(vs) \cup {"Media_Geral", "N_Alunos"} |->
                  IF c = "Media_Geral" THEN MeanSkipNa([i \in 1..Len(vs) |-> val(vs[i])])
                  ELSE IF c = "N_Alunos" THEN Num(1)
                  ELSE val(c)]]

\* chunk.groupby('UF')[cols].agg(['sum'])
GroupSum(chunk, cols) ==
    [g \in {chunk[i].uf : i \in 1..Len(chunk)} |->
        [c \in cols |->
            SumSkipNa(SeqMap(LAMBDA r : r.v[c], SelectSeq(chunk, LAMBDA r : r.uf = g)))]]

AggCols(col_map) == Range(valid_scores(col_map)) \cup {"Media_Geral", "N_Alunos"}

EnemChunkAgg(kept, col_map) ==
    GroupSum(SeqMap(LAMBDA r : EnemCleanRow(r, col_map), kept), AggCols(col_map))

\* pd.concat(agg_storage).groupby(level=0).sum()
EnemFullAgg(aggs, cols) ==
    [g \in UNION {DOMAIN aggs[i] : i \in 1..Len(aggs)} |->
        [c \in cols |->
            SumSkipNa(SeqMap(LAMBDA a : a[g][c], SelectSeq(aggs, LAMBDA a : g \in DOMAIN a)))]]

UF_REGION_MAP(uf) ==
    CASE uf \in {"RO", "AC", "AM", "RR", "PA", "AP", "TO"} -> "Norte"
      [] uf \in {"MA", "PI", "CE", "RN", "PB", "PE", "AL", "SE", "BA"} -> "Nordeste"
      [] uf \in {"MG", "ES", "RJ", "SP"} -> "Sudeste"
      [] uf \in {"PR", "SC", "RS"} -> "Sul"
      [] uf \in {"MS", "MT", "GO", "DF"} -> "Centro-Oeste"
      [] OTHER -> "NaN"

rename_dict(c) ==
    CASE c = "CN" -> "Ciencias_Natureza"
      [] c = "CH" -> "Ciencias_Humanas"
      [] c = "LC" -> "Linguagens"
      [] c = "MT" -> "Matematica"
      [] c = "RED" -> "Redacao"
      [] OTHER -> c

\* a wrong mean: the total is divided by the number of present values
EnemMeanByCount(total, n, present) == RDiv(total, Num(present))

\* the mean the unified script reports for a column: the column's total over
\* the number of rows of the group
EnemMean(total, n, present) == RDiv(total, n)

\* f"{mode}_3EM"
FiltroTag(mode) == IF mode = "STRICT" THEN "STRICT_3EM" ELSE "PROXY_3EM"

\* final_df before column selection: the numeric columns of each state
EnemFinalDf(full_agg, cols, year, mode) ==
    SeqMap(LAMBDA g :
             [s |-> [c \in {"UF", "Regiao", "Filtro"} |->
                        IF c = "UF" THEN g
                        ELSE IF c = "Regiao" THEN UF_REGION_MAP(g)
                        ELSE FiltroTag(mode)],
              v |-> [c \in {rename_dict(k) : k \in cols} \cup {"Ano"} |->
                        IF c = "Ano" THEN Num(year)
                        ELSE LET k == CHOOSE k \in cols : rename_dict(k) = c
                             IN  IF k = "N_Alunos" THEN full_agg[g][k]
                                 ELSE EnemMean(full_agg[g][k], full_agg[g]["N_Alunos"], 0)]],
           SortedKeys(DOMAIN full_agg))

all_cols_ptbr ==
    <<"Ano", "Regiao", "UF", "Filtro", "Media_Geral", "N_Alunos">>
        \o SeqMap(rename_dict, score_cols_U)

\* a wrong selection: a request matching no column keeps no column
cols_to_keep_no_fallback(user_cols) ==
    IF user_cols # {} THEN SelectSeq(all_cols_ptbr, LAMBDA c : c \in user_cols) ELSE all_cols_ptbr

\* the requested columns, or all of them when nothing (valid) was requested
cols_to_keep(user_cols) ==
    LET asked == SelectSeq(all_cols_ptbr, LAMBDA c : c \in user_cols)
    IN  IF user_cols # {} /\ asked # << >> THEN asked ELSE all_cols_ptbr

\* final_df[cols_to_keep], sorted by the general mean when it was kept
SelectColumns(df, keep) ==
    LET cut == SeqMap(LAMBDA r : [s |-> [c \in DOMAIN r.s \cap Range(keep) |-> r.s[c]],
                                  v |-> [c \in DOMAIN r.v \cap Range(keep) |-> r.v[c]]], df)
    IN  IF "Media_Geral" \in Range(keep) THEN SortDesc(cut, "Media_Geral") ELSE cut

\* header sniffing, column mapping and the choice of modes
U_Start ==
    /\ prog = "enem_unified"
    /\ pc = "start"
    /\ LET col_map == EnemColMap(header)
           modes == EnemModes(request.filter_choice, col_map)
       IN  /\ resolved' = [col_map |-> col_map, modes |-> modes]
           /\ IF modes = << >>
              THEN pc' = "done" /\ log' = Append(log, "AVISO filtros nao suportados")
              ELSE pc' = "mode" /\ log' = log
    /\ UNCHANGED <<prog, header, rows, request, pos, chunk_aggs, df_final, written>>

\* top of the loop over modes: the stream is rewound, the storage emptied
U_BeginMode ==
    /\ prog = "enem_unified"
    /\ pc = "mode"
    /\ pos' = 0
    /\ chunk_aggs' = << >>
    /\ pc' = "stream"
    /\ UNCHANGED <<prog, header, rows, request, resolved, df_final, written, log>>

\* one chunk of the current mode: filter, skip when nothing is left, else
\* aggregate (grouping fails when no UF column was mapped)
U_ReadChunk ==
    /\ prog = "enem_unified"
    /\ pc = "stream"
    /\ \E n \in 1..(Len(rows) - pos) :
          LET chunk == SubSeq(rows, pos + 1, pos + n)
              kept == SelectSeq(chunk, LAMBDA r : EnemKeep(r, resolved.col_map, Head(resolved.modes)))
          IN  /\ pos' = pos + n
              /\ IF kept = << >>
                 THEN UNCHANGED <<chunk_aggs, pc, log>>
                 ELSE IF "UF" \notin Mapped(resolved.col_map)
                 THEN /\ pc' = "done"
                      /\ log' = Append(log, "ERRO")
                      /\ chunk_aggs' = chunk_aggs
                 ELSE /\ chunk_aggs' = Append(chunk_aggs, EnemChunkAgg(kept, resolved.col_map))
                      /\ UNCHANGED <<pc, log>>
    /\ UNCHANGED <<prog, header, rows, request, resolved, df_final, written>>

\* the stream of the current mode is exhausted: consolidate, finalize, select
\* the columns and write the table; an exception ends the whole run
U_Finalize ==
    /\ prog = "enem_unified"
    /\ pc = "stream"
    /\ pos = Len(rows)
    /\ LET mode == Head(resolved.modes)
           cols == AggCols(resolved.col_map)
           final_df == EnemFinalDf(EnemFullAgg(chunk_aggs, cols), cols, request.year, mode)
           keep == cols_to_keep(request.user_cols)
           have == {"UF", "Regiao", "Filtro", "Ano"} \cup {rename_dict(k) : k \in cols}
       IN  IF chunk_aggs = << >> \/ ~(Range(keep) \subseteq have)
           THEN /\ pc' = "done"
                /\ log' = Append(log, "ERRO")
                /\ UNCHANGED <<resolved, df_final, written>>
           ELSE /\ df_final' = SelectColumns(final_df, keep)
                /\ written' = Append(written, [name |-> <<"enem_table", mode>>, table |-> df_final'])
                /\ log' = Append(log, "OK")
                /\ resolved' = [resolved EXCEPT !.modes = Tail(@)]
                /\ pc' = IF Tail(resolved.modes) = << >> THEN "done" ELSE "mode"
    /\ UNCHANGED <<prog, header, rows, request, pos, chunk_aggs>>

ScoreHeader == <<"NU_NOTA_CN", "NU_NOTA_CH", "NU_NOTA_LC", "NU_NOTA_MT", "NU_NOTA_REDACAO">>

HeadersU ==
    {<<"SG_UF_PROVA", "CO_ESCOLA", "TP_ST_CONCLUSAO">> \o ScoreHeader,
     <<"sg_uf_prova", "co_escola">> \o ScoreHeader,
     <<"SG_UF_PROVA", "TP_ST_CONCLUSAO">> \o ScoreHeader,
     <<"SG_UF_PROVA">> \o ScoreHeader,
     <<"SG_UF_PROVA", "CO_ESCOLA", "TP_ST_CONCLUSAO", "NU_NOTA_MT">>,
     <<"CO_ESCOLA", "TP_ST_CONCLUSAO">> \o ScoreHeader}

CellsU(p) ==
    CASE Upper(p) = "TP_ST_CONCLUSAO" -> {Num(1), Num(2)}
      [] Upper(p) = "CO_ESCOLA" -> {NaN, Num(7)}
      [] Upper(p) = "NU_NOTA_MT" -> {NaN, Num(600)}
      [] OTHER -> {Num(500)}

HasUF(hdr) == \E i \in 1..Len(hdr) : Upper(hdr[i]) = "SG_UF_PROVA"

RowsU(hdr) ==
    LET num == {p \in Range(hdr) : Upper(p) # "SG_UF_PROVA"}
    IN  {[uf |-> u, sc |-> f] :
            u \in (IF HasUF(hdr) THEN Range(UFS) ELSE {""}),
            f \in {f \in [num -> {NaN, Num(1), Num(2), Num(7), Num(500), Num(600)}] :
                      \A p \in num : f[p] \in CellsU(p)}}

InitU ==
    /\ prog = "enem_unified"
    /\ header \in HeadersU
    /\ rows \in SeqsUpTo(RowsU(header), MaxRowsU)
    /\ request \in [filter_choice : {"STRICT", "PROXY", "BOTH"}, user_cols : {{}}, year : {2015}]
    /\ pc = "start"
    /\ resolved = [col_map |-> << >>, modes |-> << >>]
    /\ pos = 0
    /\ chunk_aggs = << >>
    /\ df_final = << >>
    /\ written = << >>
    /\ log = << >>

NextU ==
    \/ U_Start
    \/ U_BeginMode
    \/ U_ReadChunk
    \/ U_Finalize

SpecU == InitU /\ [][NextU]_vars

\* the rows a mode keeps, and the present values of a score among them
KeptBy(mode) == SelectSeq(rows, LAMBDA r : EnemKeep(r, resolved.col_map, mode))

PresentIn(mode, g, k) ==
    SelectSeq(SeqMap(LAMBDA r : Cell(r, resolved.col_map, k),
                     SelectSeq(KeptBy(mode), LAMBDA r : r.uf = g)),
              NotNa)

\* C3: simple mean - in every table written, each score column of each state
\* holds the sum of the score's present values over the number of rows in
\* which it is present, and is missing when that number is 0
SimpleMeanOverPresent ==
    \A i \in 1..Len(written) : \A j \in 1..Len(written[i].table) :
        LET row == written[i].table[j]
        IN  \A k \in Range(valid_scores(resolved.col_map)) :
              LET present == PresentIn(written[i].name[2], row.s["UF"], k)
              IN  row.v[rename_dict(k)] = RDiv(SumSkipNa(present), Num(Len(present)))

StatusResolved == \E i \in 1..Len(header) : Upper(header[i]) = "TP_ST_CONCLUSAO"

SchoolResolved == \E i \in 1..Len(header) : Upper(header[i]) \in {"CO_ESCOLA", "ID_ESCOLA"}

Requested(mode) == request.filter_choice \in {mode, "BOTH"}

ModeResolved(mode) == IF mode = "STRICT" THEN StatusResolved ELSE SchoolResolved

\* no requested mode has its column
NothingSupported == \A m \in {"STRICT", "PROXY"} : Requested(m) => ~ModeResolved(m)

RMul(x, y) ==
    IF IsNaN(x) \/ IsNaN(y) THEN NaN
    ELSE Quot(x[1] * y[1], x[2] * y[2])

\* the characters of h.upper(), for the column names of the modelled files
\* and the tokens the scripts search for
Chars(h) ==
    CASE h = "ID_UF" -> <<"I", "D", "_", "U", "F">>
      [] h = "SG_UF" -> <<"S", "G", "_", "U", "F">>
      [] h = "ID_DEPENDENCIA_ADM" -> <<"I", "D", "_", "D", "E", "P", "E", "N", "D", "E", "N", "C", "I", "A", "_", "A", "D", "M">>
      [] h = "IN_PUBLICA" -> <<"I", "N", "_", "P", "U", "B", "L", "I", "C", "A">>
      [] h = "MEDIA_9EF_LP" -> <<"M", "E", "D", "I", "A", "_", "9", "E", "F", "_", "L", "P">>
      [] h = "MEDIA_9EF_MT" -> <<"M", "E", "D", "I", "A", "_", "9", "E", "F", "_", "M", "T">>
      [] h = "NU_PRESENTES_9EF" -> <<"N", "U", "_", "P", "R", "E", "S", "E", "N", "T", "E", "S", "_", "9", "E", "F">>
      [] h = "MEDIA_EM_LP" -> <<"M", "E", "D", "I", "A", "_", "E", "M", "_", "L", "P">>
      [] h = "MEDIA_EM_MT" -> <<"M", "E", "D", "I", "A", "_", "E", "M", "_", "M", "T">>
      [] h = "MEDIA_5EF_LP" -> <<"M", "E", "D", "I", "A", "_", "5", "E", "F", "_", "L", "P">>
      [] h = "MEDIA_5EF_MT" -> <<"M", "E", "D", "I", "A", "_", "5", "E", "F", "_", "M", "T">>
      [] h = "ID_REDE" -> <<"I", "D", "_", "R", "E", "D", "E">>
      [] h = "TP_DEPENDENCIA" -> <<"T", "P", "_", "D", "E", "P", "E", "N", "D", "E", "N", "C", "I", "A">>
      [] h = "CO_UF" -> <<"C", "O", "_", "U", "F">>
      [] h = "UF" -> <<"U", "F">>
      [] h = "MEDIA" -> <<"M", "E", "D", "I", "A">>
      [] h = "PROFICIENCIA" -> <<"P", "R", "O", "F", "I", "C", "I", "E", "N", "C", "I", "A">>
      [] h = "9EF" -> <<"9", "E", "F">>
      [] h = "3EM" -> <<"3", "E", "M">>
      [] h = "5EF" -> <<"5", "E", "F">>
      [] h = "LP" -> <<"L", "P">>
      [] h = "LINGUA" -> <<"L", "I", "N", "G", "U", "A">>
      [] h = "MT" -> <<"M", "T">>
      [] h = "MAT" -> <<"M", "A", "T">>
      [] h = "_EM_" -> <<"_", "E", "M", "_">>
      [] h = "DEPENDENCIA" -> <<"D", "E", "P", "E", "N", "D", "E", "N", "C", "I", "A">>
      [] h = "id_uf" -> <<"I", "D", "_", "U", "F">>
      [] h = "DEPENDENCIA_ADM" -> <<"D", "E", "P", "E", "N", "D", "E", "N", "C", "I", "A", "_", "A", "D", "M">>
      [] h = "MEDIA_9EF_LP_MT" -> <<"M", "E", "D", "I", "A", "_", "9", "E", "F", "_", "L", "P", "_", "M", "T">>

\* x in h.upper()
Contains(x, h) ==
    LET X == Chars(x)
        H == Chars(h)
    IN  \E i \in 0..(Len(H) - Len(X)) : SubSeq(H, i + 1, i + Len(X)) = X

\* next((h for h in header if P(h)), None)
FirstWhere(hdr, P(_)) ==
    LET hits == {i \in 1..Len(hdr) : P(hdr[i])}
    IN  IF hits = {} THEN NoCol ELSE hdr[CHOOSE i \in hits : \A j \in hits : i <= j]

IBGE_TO_SIGLA(code) ==
    CASE code = 11 -> "RO" [] code = 12 -> "AC" [] code = 13 -> "AM" [] code = 14 -> "RR"
      [] code = 15 -> "PA" [] code = 16 -> "AP" [] code = 17 -> "TO" [] code = 21 -> "MA"
      [] code = 22 -> "PI" [] code = 23 -> "CE" [] code = 24 -> "RN" [] code = 25 -> "PB"
      [] code = 26 -> "PE" [] code = 27 -> "AL" [] code = 28 -> "SE" [] code = 29 -> "BA"
      [] code = 31 -> "MG" [] code = 32 -> "ES" [] code = 33 -> "RJ" [] code = 35 -> "SP"
      [] code = 41 -> "PR" [] code = 42 -> "SC" [] code = 43 -> "RS" [] code = 50 -> "MS"
      [] code = 51 -> "MT" [] code = 52 -> "GO" [] code = 53 -> "DF"
      [] OTHER -> "NaN"

SaebColAdm(hdr) ==
    FirstWhere(hdr, LAMBDA h : \E x \in {"ID_DEPENDENCIA_ADM", "IN_PUBLICA", "ID_REDE", "TP_DEPENDENCIA"} :
                                  Contains(x, h))

SaebColUf(hdr) ==
    FirstWhere(hdr, LAMBDA h : \E x \in {"ID_UF", "CO_UF", "UF", "SG_UF"} : Contains(x, h))

\* the candidate names of the student-count column of a grade
QuantityCandidates(grade) ==
    CASE grade = "9EF" -> <<"NU_PRESENTES_9EF", "NU_PRESENTES_9EF_LP", "QTD_ALUNOS_9EF",
                            "N_ALUNOS_9EF", "NU_PRESENTES">>
      [] grade = "3EM" -> <<"NU_PRESENTES_3EM", "NU_PRESENTES_3EM_LP", "QTD_ALUNOS_3EM",
                            "N_ALUNOS_3EM", "NU_PRESENTES", "NU_PRESENTES_EM", "NU_PRESENTES_EM_LP">>
      [] OTHER -> <<"NU_PRESENTES_EM", "NU_PRESENTES_EM_LP", "QTD_ALUNOS_EM",
                    "N_ALUNOS_EM", "NU_PRESENTES">>

get_quantity_column(hdr, grade) ==
    LET hit(c) == {i \in 1..Len(hdr) : Upper(hdr[i]) = c}
        cands == SelectSeq(QuantityCandidates(grade), LAMBDA c : hit(c) # {})
    IN  IF cands = << >> THEN NoCol
        ELSE hdr[CHOOSE i \in hit(cands[1]) : \A j \in hit(cands[1]) : j <= i]

find_grade_columns(hdr, grade) ==
    LET score(h) == (Contains("MEDIA", h) \/ Contains("PROFICIENCIA", h)) /\ Contains(grade, h)
        lp == FirstWhere(hdr, LAMBDA h : score(h) /\ (Contains("LP", h) \/ Contains("LINGUA", h)))
        mt == FirstWhere(hdr, LAMBDA h : score(h) /\ (Contains("MT", h) \/ Contains("MAT", h)))
        qty == get_quantity_column(hdr, grade)
    IN  IF ~(lp # NoCol /\ mt # NoCol) /\ grade = "3EM"
        THEN [lp |-> FirstWhere(hdr, LAMBDA h : Contains("MEDIA", h) /\ Contains("_EM_", h) /\ Contains("LP", h)),
              mt |-> FirstWhere(hdr, LAMBDA h : Contains("MEDIA", h) /\ Contains("_EM_", h) /\ Contains("MT", h)),
              qty |-> IF qty = NoCol THEN get_quantity_column(hdr, "EM") ELSE qty]
        ELSE [lp |-> lp, mt |-> mt, qty |-> qty]

\* Is_Public of a row: 0 for administrative dependency 4, else 1; 1 for every
\* row when the file has no network column
SaebIsPublic(r, col_adm) ==
    IF col_adm # NoCol
    THEN (IF to_numeric(r.sc[col_adm]) = Num(4) THEN 0 ELSE 1)
    ELSE 1

SaebKeep(r, col_adm, filter_network) ==
    CASE filter_network = "PUBLIC" -> SaebIsPublic(r, col_adm) = 1
      [] filter_network = "PRIVATE" -> SaebIsPublic(r, col_adm) = 0
      [] OTHER -> TRUE

\* df['UF']: the code mapped to its abbreviation when the column is numeric
SaebUF(r, numeric) == IF numeric THEN IBGE_TO_SIGLA(r.uf.code) ELSE r.uf.sigla

\* a wrong student count: a school counts for one when the file has no
\* student-count column
SaebNAlunosOne(r, c_qty) ==
    IF c_qty # NoCol
    THEN (IF IsNaN(to_numeric(r.sc[c_qty])) THEN Num(0) ELSE to_numeric(r.sc[c_qty]))
    ELSE Num(1)

\* df['N_Alunos']: the student count, 0 where it is missing or has no column
SaebNAlunos(r, c_qty) ==
    IF c_qty # NoCol
    THEN (IF IsNaN(to_numeric(r.sc[c_qty])) THEN Num(0) ELSE to_numeric(r.sc[c_qty]))
    ELSE Num(0)

\* np.average(d, weights=w)
NpAverage(d, w) ==
    RDiv(SumSkipNa([i \in 1..Len(d) |-> RMul(d[i], w[i])]), SumSkipNa(w))

\* a wrong group mean: missing when the weights of the group sum to 0
SaebGroupMeanNull(d, w) ==
    IF RLess(Num(0), SumSkipNa(w)) THEN NpAverage(d, w) ELSE NaN

\* one group's mean inside groupby.apply: weighted by the student counts, or
\* the simple mean when the counts of the group sum to 0
SaebGroupMean(d, w) ==
    IF RLess(Num(0), SumSkipNa(w)) THEN NpAverage(d, w) ELSE MeanSkipNa(d)

\* the rows of sub: filtered, normalised, both scores present
SaebSub(rs, cols, col_adm, filter_network) ==
    LET numeric == rs # << >> /\ \A i \in 1..Len(rs) : "code" \in DOMAIN rs[i].uf
        norm(r) == [uf |-> SaebUF(r, numeric),
                    lp |-> to_numeric(r.sc[cols.lp]),
                    mt |-> to_numeric(r.sc[cols.mt]),
                    n |-> SaebNAlunos(r, cols.qty)]
        kept == SelectSeq(rs, LAMBDA r : SaebKeep(r, col_adm, filter_network))
    IN  SelectSeq(SeqMap(norm, kept), LAMBDA r : NotNa(r.lp) /\ NotNa(r.mt))

\* agg: per state the two means and the student count
SaebAgg(sub) ==
    LET total == SumSkipNa(SeqMap(LAMBDA r : r.n, sub))
        of(g) == SelectSeq(sub, LAMBDA r : r.uf = g)
        lp(g) == SeqMap(LAMBDA r : r.lp, of(g))
        mt(g) == SeqMap(LAMBDA r : r.mt, of(g))
        n(g) == SeqMap(LAMBDA r : r.n, of(g))
    IN  [g \in {sub[i].uf : i \in 1..Len(sub)} \ {"NaN"} |->
            IF RLess(Num(0), total)
            THEN [Media_Port |-> SaebGroupMean(lp(g), n(g)),
                  Media_Mat |-> SaebGroupMean(mt(g), n(g)),
                  N_Alunos |-> SumSkipNa(n(g))]
            ELSE [Media_Port |-> MeanSkipNa(lp(g)),
                  Media_Mat |-> MeanSkipNa(mt(g)),
                  N_Alunos |-> SumSkipNa(n(g))]]

saeb_all_cols ==
    <<"Ano", "Regiao", "UF", "Rede", "Serie", "Media_Geral", "Media_Mat", "Media_Port", "N_Alunos">>

saeb_cols_to_keep(user_cols) ==
    LET asked == SelectSeq(saeb_all_cols, LAMBDA c : c \in user_cols)
    IN  IF user_cols # {} /\ asked # << >> THEN asked ELSE saeb_all_cols

\* the table of one grade before column selection
SaebTable(agg, year, grade, filter_network) ==
    SeqMap(LAMBDA g :
             [s |-> [c \in {"UF", "Regiao", "Rede", "Serie"} |->
                        CASE c = "UF" -> g
                          [] c = "Regiao" -> UF_REGION_MAP(g)
                          [] c = "Rede" -> filter_network
                          [] OTHER -> grade],
              v |-> [c \in {"Ano", "Media_Geral", "Media_Mat", "Media_Port", "N_Alunos"} |->
                        CASE c = "Ano" -> Num(year)
                          [] c = "Media_Geral" ->
                               RDiv(RAdd(agg[g].Media_Port, agg[g].Media_Mat), Num(2))
                          [] OTHER -> agg[g][c]]],
           SortedKeys(DOMAIN agg))

\* header sniffing and the resolution of the network and UF columns
S_Start ==
    /\ prog = "saeb_unified"
    /\ pc = "start"
    /\ resolved' = [col_adm |-> SaebColAdm(header), col_uf |-> SaebColUf(header),
                    grades |-> <<"9EF", "3EM">>, processed_grades |-> 0]
    /\ pc' = "grade"
    /\ UNCHANGED <<prog, header, rows, request, pos, chunk_aggs, df_final, written, log>>

\* one pass of the loop over grades: a grade without both score columns is
\* skipped, as is one left without rows; grouping without a UF column raises
S_Grade ==
    /\ prog = "saeb_unified"
    /\ pc = "grade"
    /\ resolved.grades # << >>
    /\ LET grade == Head(resolved.grades)
           cols == find_grade_columns(header, grade)
           sub == SaebSub(rows, cols, resolved.col_adm, request.filter_network)
           final_df == SelectColumns(SaebTable(SaebAgg(sub), request.year, grade, request.filter_network),
                                     saeb_cols_to_keep(request.user_cols))
       IN  IF ~(cols.lp # NoCol /\ cols.mt # NoCol)
           THEN /\ resolved' = [resolved EXCEPT !.grades = Tail(@)]
                /\ UNCHANGED <<pc, pos, df_final, written, log>>
           ELSE IF resolved.col_uf = NoCol
           THEN /\ pc' = "done"
                /\ pos' = Len(rows)
                /\ log' = Append(log, "ERRO")
                /\ UNCHANGED <<resolved, df_final, written>>
           ELSE IF sub = << >>
           THEN /\ resolved' = [resolved EXCEPT !.grades = Tail(@)]
                /\ pos' = Len(rows)
                /\ UNCHANGED <<pc, df_final, written, log>>
           ELSE /\ df_final' = final_df
                /\ written' = Append(written, [name |-> <<"saeb_table", grade>>, table |-> final_df])
                /\ log' = Append(log, "Gerado")
                /\ pos' = Len(rows)
                /\ resolved' = [resolved EXCEPT !.grades = Tail(@),
                                                !.processed_grades = @ + 1]
                /\ pc' = pc
    /\ UNCHANGED <<prog, header, rows, request, chunk_aggs>>

\* after the loop: a warning when no grade produced a table
S_End ==
    /\ prog = "saeb_unified"
    /\ pc = "grade"
    /\ resolved.grades = << >>
    /\ pc' = "done"
    /\ log' = IF resolved.processed_grades = 0
              THEN Append(log, "AVISO nenhuma serie processada")
              ELSE log
    /\ UNCHANGED <<prog, header, rows, request, resolved, pos, chunk_aggs, df_final, written>>

HeadersS ==
    {<<"ID_UF", "ID_DEPENDENCIA_ADM", "MEDIA_9EF_LP", "MEDIA_9EF_MT", "NU_PRESENTES_9EF">>,
     <<"ID_UF", "MEDIA_9EF_LP", "MEDIA_9EF_MT", "NU_PRESENTES_9EF">>,
     <<"ID_UF", "ID_DEPENDENCIA_ADM", "MEDIA_9EF_LP", "MEDIA_9EF_MT">>,
     <<"SG_UF", "MEDIA_EM_LP", "MEDIA_EM_MT">>,
     <<"ID_UF", "ID_DEPENDENCIA_ADM">>,
     <<"ID_DEPENDENCIA_ADM", "MEDIA_9EF_LP", "MEDIA_9EF_MT">>}

\* the cells a column of the modelled files holds
CellsS(p, hdr) ==
    CASE p = "ID_DEPENDENCIA_ADM" ->
            IF {"ID_UF", "MEDIA_9EF_LP"} \subseteq Range(hdr) /\ "NU_PRESENTES_9EF" \notin Range(hdr)
            THEN {NaN, Num(2), Num(4)}
            ELSE {Num(2), Num(4)}
      [] p \in {"MEDIA_9EF_LP", "MEDIA_EM_LP"} ->
            IF "NU_PRESENTES_9EF" \in Range(hdr) /\ "ID_DEPENDENCIA_ADM" \in Range(hdr)
            THEN {Num(200), Num(300)}
            ELSE {NaN, Num(200), Num(300)}
      [] p = "MEDIA_EM_MT" -> {TextCell, Num(300)}
      [] p = "NU_PRESENTES_9EF" ->
            IF "ID_DEPENDENCIA_ADM" \in Range(hdr) THEN {Num(0), Num(2)}
            ELSE {NaN, Num(0), Num(1), Num(3)}
      [] OTHER -> {Num(300)}

UFCellsS(hdr) ==
    IF "ID_UF" \in Range(hdr) THEN {[code |-> 13], [code |-> 35]}
    ELSE IF "SG_UF" \in Range(hdr) THEN {[sigla |-> "AM"], [sigla |-> "SP"], [sigla |-> "XX"]}
    ELSE {[sigla |-> ""]}

RowsS(hdr) ==
    LET num == Range(hdr) \ {"ID_UF", "SG_UF"}
    IN  {[uf |-> u, sc |-> f] :
            u \in UFCellsS(hdr),
            f \in {f \in [num -> {NaN, TextCell, Num(0), Num(1), Num(2), Num(3), Num(4),
                                  Num(200), Num(300)}] :
                      \A p \in num : f[p] \in CellsS(p, hdr)}}

(***************************************************************************)
(* PisaUnifiedETL._calc_weighted of                                        *)
(* src/cog/cog_01_process_unified_pisa_pipeline.py                         *)
(***************************************************************************)
\* f'{col}_Ponderada'
Ponderada(col) ==
    CASE col = "PV1MATH" -> "PV1MATH_Ponderada"
      [] col = "PV1READ" -> "PV1READ_Ponderada"
      [] col = "PV1SCIE" -> "PV1SCIE_Ponderada"
      [] OTHER -> "_Ponderada"

\* weighted_avg(x) for column col: over the rows of the group where both the
\* score and the weight are present; missing unless the weights sum above 0
weighted_avg(x, col) ==
    LET valid == SelectSeq(x, LAMBDA r : NotNa(to_numeric(r.sc[col]))
                                           /\ NotNa(to_numeric(r.sc["W_FSTUWT"])))
        d == SeqMap(LAMBDA r : to_numeric(r.sc[col]), valid)
        w == SeqMap(LAMBDA r : to_numeric(r.sc["W_FSTUWT"]), valid)
    IN  IF RLess(Num(0), SumSkipNa(w)) THEN NpAverage(d, w) ELSE NaN

\* the merged per-group table of weighted means, or None when a column is
\* absent from df (the exception is swallowed)
calc_weighted(columns, df, group_col, val_cols) ==
    IF "W_FSTUWT" \notin columns \/ ~(Range(val_cols) \subseteq columns) \/ val_cols = << >>
    THEN [none |-> TRUE, table |-> << >>]
    ELSE [none |-> FALSE,
          table |-> SeqMap(LAMBDA g :
                             [s |-> [c \in {group_col} |-> g],
                              v |-> [c \in {Ponderada(k) : k \in Range(val_cols)} |->
                                       weighted_avg(SelectSeq(df, LAMBDA r : r.uf = g),
                                                    CHOOSE k \in Range(val_cols) : Ponderada(k) = c)]],
                           SortedKeys({df[i].uf : i \in 1..Len(df)}))]

\* one call of _calc_weighted; on a frame without rows the groupby yields
\* either an empty table or an exception, depending on the pandas build
P_CalcWeighted ==
    /\ prog = "pisa_weighted"
    /\ pc = "start"
    /\ \E raises \in BOOLEAN :
          LET means_w == calc_weighted(Range(header), rows, request.group_col, request.val_cols)
          IN  IF means_w.none \/ (rows = << >> /\ raises)
              THEN /\ log' = Append(log, "None")
                   /\ UNCHANGED <<df_final, written>>
              ELSE /\ df_final' = means_w.table
                   /\ written' = Append(written, [name |-> <<"means_w", request.group_col>>,
                                                  table |-> means_w.table])
                   /\ log' = log
    /\ pc' = "done"
    /\ pos' = Len(rows)
    /\ UNCHANGED <<prog, header, rows, request, resolved, chunk_aggs>>

HeadersP ==
    {<<"Region", "PV1MATH", "PV1READ", "PV1SCIE", "W_FSTUWT">>,
     <<"Region", "PV1MATH", "PV1READ", "PV1SCIE">>,
     <<"Region", "PV1MATH", "W_FSTUWT">>}

CellsP(p) ==
    CASE p = "PV1MATH" -> {NaN, Num(400), Num(500)}
      [] p = "W_FSTUWT" -> {NaN, Num(0), Num(1), Num(3)}
      [] OTHER -> {Num(450)}

RowsP(hdr) ==
    LET num == Range(hdr) \ {"Region"}
    IN  {[uf |-> u, sc |-> f] :
            u \in {"North", "South"},
            f \in {f \in [num -> {NaN, Num(0), Num(1), Num(3), Num(400), Num(450), Num(500)}] :
                      \A p \in num : f[p] \in CellsP(p)}}

InitS ==
    /\ prog = "saeb_unified"
    /\ header \in HeadersS
    /\ rows \in SeqsUpTo(RowsS(header), MaxRowsU)
    /\ request \in [filter_network : {"ALL", "PUBLIC", "PRIVATE"}, user_cols : {{}}, year : {2019}]
    /\ pc = "start"
    /\ resolved = [col_adm |-> NoCol, col_uf |-> NoCol, grades |-> << >>, processed_grades |-> 0]
    /\ pos = 0
    /\ chunk_aggs = << >>
    /\ df_final = << >>
    /\ written = << >>
    /\ log = << >>

InitP ==
    /\ prog = "pisa_weighted"
    /\ header \in HeadersP
    /\ rows \in SeqsUpTo(RowsP(header), MaxRowsU)
    /\ request = [group_col |-> "Region", val_cols |-> <<"PV1MATH", "PV1READ", "PV1SCIE">>]
    /\ pc = "start"
    /\ resolved = << >>
    /\ pos = 0
    /\ chunk_aggs = << >>
    /\ df_final = << >>
    /\ written = << >>
    /\ log = << >>

InitW == InitS \/ InitP

NextW ==
    \/ S_Start
    \/ S_Grade
    \/ S_End
    \/ P_CalcWeighted

SpecW == InitW /\ [][NextW]_vars

\* the rows the SAEB run aggregates for a grade, and per state their simple
\* mean of a score and their total student count
SubOf(grade) ==
    SaebSub(rows, find_grade_columns(header, grade), resolved.col_adm, request.filter_network)

GroupOf(grade, g) == SelectSeq(SubOf(grade), LAMBDA r : r.uf = g)

SimpleOf(grade, g, f) == MeanSkipNa(SeqMap(LAMBDA r : r[f], GroupOf(grade, g)))

WeightOf(grade, g) == SumSkipNa(SeqMap(LAMBDA r : r.n, GroupOf(grade, g)))

CountResolved(grade) == find_grade_columns(header, grade).qty # NoCol

SaebTables == IF prog = "saeb_unified" THEN 1..Len(written) ELSE {}

PisaTables == IF prog = "pisa_weighted" THEN 1..Len(written) ELSE {}

\* the rows of a PISA group in which both the score k and the weight are present
PisaValid(g, k) ==
    SelectSeq(rows, LAMBDA r : r.uf = g /\ NotNa(r.sc[k]) /\ NotNa(r.sc["W_FSTUWT"]))

TableAggs(tables) ==
    [i \in 1..Len(tables) |->
        [grade |-> tables[i].name[2],
         agg |-> [g \in {tables[i].table[j].s["UF"] : j \in 1..Len(tables[i].table)} |->
                    LET row == CHOOSE r \in Range(tables[i].table) : r.s["UF"] = g
                    IN  <<row.v["Media_Port"], row.v["Media_Mat"], row.v["N_Alunos"]>>]]]

\* what the same file yields under filter ALL
AllAggs ==
    LET sub(grade) == SaebSub(rows, find_grade_columns(header, grade), SaebColAdm(header), "ALL")
        has(grade) == /\ find_grade_columns(header, grade).lp # NoCol
                      /\ find_grade_columns(header, grade).mt # NoCol
                      /\ sub(grade) # << >>
    IN  SeqMap(LAMBDA grade :
                 [grade |-> grade,
                  agg |-> [g \in DOMAIN SaebAgg(sub(grade)) |->
                             <<SaebAgg(sub(grade))[g].Media_Port,
                               SaebAgg(sub(grade))[g].Media_Mat,
                               SaebAgg(sub(grade))[g].N_Alunos>>]],
               SelectSeq(<<"9EF", "3EM">>, has))

\* C8: on a file with score columns but no network column, a PUBLIC and a
\* PRIVATE run end without error with the per-state aggregates of an ALL run
NetworkFilterFallsBack ==
    (/\ prog = "saeb_unified"
     /\ pc = "done"
     /\ \A i \in 1..Len(header) : header[i] \notin {"ID_DEPENDENCIA_ADM", "IN_PUBLICA"}
     /\ \E grade \in {"9EF", "3EM"} : find_grade_columns(header, grade).lp # NoCol) =>
        /\ "ERRO" \notin Range(log)
        /\ TableAggs(written) = AllAggs

(***************************************************************************)
(* SaebPipeline of src/cog/01_process_saeb_historical.py                   *)
(***************************************************************************)
\* a wrong resolver: the first header column that equals any candidate, in
\* header order
saeb_find_col_flexible_header_order(hdr, candidates, substring_fallback) ==
    LET hits == {i \in 1..Len(hdr) : \E n \in 1..Len(candidates) : Upper(hdr[i]) = Upper(candidates[n])}
    IN  IF hits # {}
        THEN hdr[CHOOSE i \in hits : \A j \in hits : i <= j]
        ELSE IF substring_fallback # ""
        THEN FirstWhere(hdr, LAMBDA h : Contains(substring_fallback, h))
        ELSE NoCol

\* find_col_flexible with the substring fallback ("" for none): an exact
\* match ignoring case first, then the first column containing the substring
saeb_find_col_flexible(hdr, candidates, substring_fallback) ==
    LET hit(c) == {i \in 1..Len(hdr) : Upper(hdr[i]) = Upper(c)}
        cands == SelectSeq(candidates, LAMBDA c : hit(c) # {})
    IN  IF cands # << >>
        THEN hdr[CHOOSE i \in hit(cands[1]) : \A j \in hit(cands[1]) : j <= i]
        ELSE IF substring_fallback # ""
        THEN FirstWhere(hdr, LAMBDA h : Contains(substring_fallback, h))
        ELSE NoCol

\* min(cands, key=len): the first of the shortest names
ShortestOf(cands) ==
    IF cands = << >> THEN NoCol
    ELSE cands[CHOOSE i \in 1..Len(cands) :
                  /\ \A j \in 1..Len(cands) : Len(Chars(cands[i])) <= Len(Chars(cands[j]))
                  /\ \A j \in 1..(i - 1) : Len(Chars(cands[j])) > Len(Chars(cands[i]))]

find_columns_heuristic(all_cols, grade_tag) ==
    LET score(h) == /\ Contains("MEDIA", h) \/ Contains("PROFICIENCIA", h)
                    /\ Contains(grade_tag, h) \/ (grade_tag = "3EM" /\ Contains("_EM_", h))
        isLp(h) == Contains("LP", h) \/ Contains("LINGUA", h)
        isMt(h) == Contains("MT", h) \/ Contains("MAT", h)
    IN  [lp |-> ShortestOf(SelectSeq(all_cols, LAMBDA h : score(h) /\ isLp(h))),
         mt |-> ShortestOf(SelectSeq(all_cols, LAMBDA h : score(h) /\ ~isLp(h) /\ isMt(h)))]

\* self.column_hints[year][grade], NoCol where the year or grade has no hint
column_hints(year, g) ==
    CASE year = 2023 /\ g = "3EM" -> [lp |-> "MEDIA_EM_LP", mt |-> "MEDIA_EM_MT"]
      [] year = 2021 /\ g = "3EM" -> [lp |-> "MEDIA_3EM_LP", mt |-> "MEDIA_3EM_MT"]
      [] year = 2017 /\ g = "5EF" -> [lp |-> "MEDIA_5EF_LP", mt |-> "MEDIA_5EF_MT"]
      [] year = 2017 /\ g = "9EF" -> [lp |-> "MEDIA_9EF_LP", mt |-> "MEDIA_9EF_MT"]
      [] year = 2017 /\ g = "3EM" -> [lp |-> "MEDIA_3EM_LP", mt |-> "MEDIA_3EM_MT"]
      [] OTHER -> [lp |-> NoCol, mt |-> NoCol]

\* the score columns of one grade: the year's hint when both its columns are
\* in the header, else the heuristic
GradeColumns(hdr, year, g) ==
    LET hint == column_hints(year, g)
    IN  IF hint.lp \in Range(hdr) /\ hint.mt \in Range(hdr) THEN hint
        ELSE find_columns_heuristic(hdr, g)

grades_to_process(hdr, year) ==
    SeqMap(LAMBDA g : [grade |-> g, lp |-> GradeColumns(hdr, year, g).lp, mt |-> GradeColumns(hdr, year, g).mt],
           SelectSeq(<<"5EF", "9EF", "3EM">>,
                     LAMBDA g : GradeColumns(hdr, year, g).lp # NoCol /\ GradeColumns(hdr, year, g).mt # NoCol))

network_candidates ==
    <<"IN_PUBLICA", "ID_DEPENDENCIA_ADM", "TP_DEPENDENCIA", "TP_DEPENDENCIA_ADM", "ID_REDE">>

\* a wrong map_dependency: every value but 1, 2, 3 is private
map_dependency_binary(val) ==
    IF val \in {Num(1), Num(2), Num(3)} THEN Num(1) ELSE Num(0)

\* map_dependency: 1, 2, 3 public, 4 private, anything else unknown
map_dependency(val) ==
    IF val \in {Num(1), Num(2), Num(3)} THEN Num(1)
    ELSE IF val = Num(4) THEN Num(0)
    ELSE NaN

\* Is_Public of a row under the hybrid logic
HistIsPublic(r, col_adm) ==
    IF col_adm = NoCol THEN NaN
    ELSE IF Contains("IN_PUBLICA", col_adm)
    THEN (IF to_numeric(r.sc[col_adm]) = Num(1) THEN Num(1) ELSE Num(0))
    ELSE map_dependency(to_numeric(r.sc[col_adm]))

HistKeep(r, col_adm, filter_network) ==
    IF filter_network = "PUBLIC" /\ col_adm # NoCol THEN HistIsPublic(r, col_adm) = Num(1)
    ELSE IF filter_network = "PRIVATE" /\ col_adm # NoCol THEN HistIsPublic(r, col_adm) = Num(0)
    ELSE TRUE

\* df['UF']: the abbreviation of the row, 'BR' when no UF column resolved
HistUF(r, col_uf, numeric) ==
    IF col_uf = NoCol THEN "BR" ELSE SaebUF(r, numeric)

\* the loaded frame after the network logic, the filter and the UF column
HistFrame(rs, col_adm, col_uf, filter_network) ==
    LET numeric == rs # << >> /\ \A i \in 1..Len(rs) : "code" \in DOMAIN rs[i].uf
    IN  SeqMap(LAMBDA r : [uf |-> HistUF(r, col_uf, numeric),
                           Is_Public |-> HistIsPublic(r, col_adm),
                           sc |-> r.sc],
               SelectSeq(rs, LAMBDA r : HistKeep(r, col_adm, filter_network)))

\* str(self.year)
YearStr(year) ==
    CASE year = 2017 -> "2017"
      [] year = 2019 -> "2019"
      [] OTHER -> "year"

\* the table of one grade: per UF the means of the two scores and of
\* Is_Public over the rows with both scores, sorted by the general mean
HistGradeTable(df, item, year) ==
    LET sub == SelectSeq(df, LAMBDA r : NotNa(to_numeric(r.sc[item.lp]))
                                          /\ NotNa(to_numeric(r.sc[item.mt])))
        of(g) == SelectSeq(sub, LAMBDA r : r.uf = g)
        lang(g) == MeanSkipNa(SeqMap(LAMBDA r : to_numeric(r.sc[item.lp]), of(g)))
        math(g) == MeanSkipNa(SeqMap(LAMBDA r : to_numeric(r.sc[item.mt]), of(g)))
    IN  SortDesc(SeqMap(LAMBDA g :
                          [s |-> [c \in {"Year", "UF", "Grade"} |->
                                     CASE c = "Year" -> YearStr(year)
                                       [] c = "UF" -> g
                                       [] OTHER -> item.grade],
                           v |-> [c \in {"SAEB_General", "Math_Mean", "Language_Mean", "Public_Share"} |->
                                     CASE c = "SAEB_General" -> RDiv(RAdd(lang(g), math(g)), Num(2))
                                       [] c = "Math_Mean" -> math(g)
                                       [] c = "Language_Mean" -> lang(g)
                                       [] OTHER -> MeanSkipNa(SeqMap(LAMBDA r : r.Is_Public, of(g)))]],
                        SortedKeys({sub[i].uf : i \in 1..Len(sub)} \ {"NaN"})),
                 "SAEB_General")

\* header sniffing, column resolution, the grade list and the load of the
\* frame with its network flag, filter and UF column
B_Start ==
    /\ prog = "saeb_historical"
    /\ pc = "start"
    /\ LET col_adm == saeb_find_col_flexible(header, network_candidates, "DEPENDENCIA")
           col_uf == saeb_find_col_flexible(header, <<"ID_UF", "CO_UF", "UF", "SG_UF">>, "")
           grades == grades_to_process(header, request.year)
       IN  /\ resolved' = [col_adm |-> col_adm, col_uf |-> col_uf, grades |-> grades]
           /\ IF grades = << >>
              THEN /\ pc' = "done"
                   /\ log' = log \o <<IF col_adm # NoCol THEN "CHECK network column" ELSE "CRITICAL network column",
                                      "WARN no grade columns">>
                   /\ UNCHANGED <<pos, chunk_aggs>>
              ELSE /\ pc' = "grade"
                   /\ log' = Append(log, IF col_adm # NoCol THEN "CHECK network column" ELSE "CRITICAL network column")
                   /\ pos' = Len(rows)
                   /\ chunk_aggs' = HistFrame(rows, col_adm, col_uf, request.filter_network)
    /\ UNCHANGED <<prog, header, rows, request, df_final, written>>

\* one pass of the loop over the grades to process: nothing is written for a
\* grade left without rows
B_Grade ==
    /\ prog = "saeb_historical"
    /\ pc = "grade"
    /\ LET item == Head(resolved.grades)
           final_grade_df == HistGradeTable(chunk_aggs, item, request.year)
           sub == SelectSeq(chunk_aggs, LAMBDA r : NotNa(to_numeric(r.sc[item.lp]))
                                                     /\ NotNa(to_numeric(r.sc[item.mt])))
       IN  /\ IF sub = << >>
              THEN UNCHANGED <<df_final, written, log>>
              ELSE /\ df_final' = final_grade_df
                   /\ written' = Append(written, [name |-> <<"saeb_table", item.grade, request.filter_network>>,
                                                  table |-> final_grade_df])
                   /\ log' = Append(log, "Saved")
           /\ resolved' = [resolved EXCEPT !.grades = Tail(@)]
           /\ pc' = IF Tail(resolved.grades) = << >> THEN "done" ELSE "grade"
    /\ UNCHANGED <<prog, header, rows, request, pos, chunk_aggs>>

HeadersB ==
    {<<"ID_UF", "ID_DEPENDENCIA_ADM", "MEDIA_9EF_LP", "MEDIA_9EF_MT">>,
     <<"ID_UF", "IN_PUBLICA", "MEDIA_5EF_LP", "MEDIA_5EF_MT">>,
     <<"ID_UF", "MEDIA_9EF_LP", "MEDIA_9EF_MT", "MEDIA_5EF_LP">>,
     <<"ID_DEPENDENCIA_ADM", "MEDIA_9EF_LP", "MEDIA_9EF_MT">>,
     <<"ID_UF", "ID_DEPENDENCIA_ADM">>,
     <<"SG_UF", "MEDIA_9EF_LP">>}

CellsB(p) ==
    CASE p = "ID_DEPENDENCIA_ADM" -> {NaN, Num(2), Num(4)}
      [] p = "IN_PUBLICA" -> {Num(0), Num(1)}
      [] p \in {"MEDIA_9EF_LP", "MEDIA_5EF_MT"} -> {NaN, Num(200), Num(300)}
      [] OTHER -> {Num(300)}

RowsB(hdr) ==
    LET num == Range(hdr) \ {"ID_UF", "SG_UF"}
    IN  {[uf |-> u, sc |-> f] :
            u \in UFCellsS(hdr),
            f \in {f \in [num -> {NaN, Num(0), Num(1), Num(2), Num(4), Num(200), Num(300)}] :
                      \A p \in num : f[p] \in CellsB(p)}}

InitHist ==
    /\ prog = "saeb_historical"
    /\ header \in HeadersB
    /\ rows \in SeqsUpTo(RowsB(header), MaxRowsU)
    /\ request \in [filter_network : {"ALL", "PUBLIC", "PRIVATE"}, year : {2017, 2019}]
    /\ pc = "start"
    /\ resolved = [col_adm |-> NoCol, col_uf |-> NoCol, grades |-> << >>]
    /\ pos = 0
    /\ chunk_aggs = << >>
    /\ df_final = << >>
    /\ written = << >>
    /\ log = << >>

(***************************************************************************)
(* EnemPipeline of src/ind/legacy/process_enem_unified.py                  *)
(***************************************************************************)
LegacyOrder ==
    <<"UF", "SCHOOL_ID", "SCHOOL_TYPE", "SCHOOL_DEP", "STATUS",
      "Natural_Sciences", "Humanities", "Language", "Math", "Essay">>

LEGACY_TARGET_COLS ==
    [k \in Range(LegacyOrder) |->
        CASE k = "UF" -> <<"SG_UF_PROVA", "UF_PROVA", "SG_UF_ESC">>
          [] k = "SCHOOL_ID" -> <<"CO_ESCOLA">>
          [] k = "SCHOOL_TYPE" -> <<"TP_ESCOLA">>
          [] k = "SCHOOL_DEP" -> <<"TP_DEPENDENCIA_ADM_ESC">>
          [] k = "STATUS" -> <<"TP_ST_CONCLUSAO">>
          [] k = "Natural_Sciences" -> <<"NU_NOTA_CN">>
          [] k = "Humanities" -> <<"NU_NOTA_CH">>
          [] k = "Language" -> <<"NU_NOTA_LC">>
          [] k = "Math" -> <<"NU_NOTA_MT">>
          [] k = "Essay" -> <<"NU_NOTA_REDACAO">>]

\* col_map: physical column -> internal name, for the names that resolved
LegacyColMap(hdr) ==
    LET found == {k \in Range(LegacyOrder) : find_col_flexible(hdr, LEGACY_TARGET_COLS[k]) # NoCol}
    IN  [p \in {find_col_flexible(hdr, LEGACY_TARGET_COLS[k]) : k \in found} |->
            LegacyOrder[CHOOSE i \in 1..Len(LegacyOrder) :
                /\ LegacyOrder[i] \in found
                /\ find_col_flexible(hdr, LEGACY_TARGET_COLS[LegacyOrder[i]]) = p
                /\ \A j \in (i + 1)..Len(LegacyOrder) :
                      LegacyOrder[j] \in found =>
                          find_col_flexible(hdr, LEGACY_TARGET_COLS[LegacyOrder[j]]) # p]]

\* a wrong list of mandatory columns: nothing is mandatory
missing_critical_none(hdr) == << >>

\* the mandatory internal names that did not resolve
missing_critical(hdr) ==
    SelectSeq(LegacyOrder, LAMBDA k : find_col_flexible(hdr, LEGACY_TARGET_COLS[k]) = NoCol
                                        /\ k \in {"UF"})

legacy_filter_mode(col_map) ==
    IF "STATUS" \in Mapped(col_map) THEN "STRICT_3EM"
    ELSE IF "SCHOOL_ID" \in Mapped(col_map) THEN "PROXY_3EM"
    ELSE "ALL"

LegacyKeep(r, col_map, filter_mode) ==
    CASE filter_mode = "STRICT_3EM" -> Cell(r, col_map, "STATUS") = Num(2)
      [] filter_mode = "PROXY_3EM" -> NotNa(Cell(r, col_map, "SCHOOL_ID"))
      [] OTHER -> TRUE

legacy_score_cols == <<"Natural_Sciences", "Humanities", "Language", "Math", "Essay">>

present_scores(col_map) == SelectSeq(legacy_score_cols, LAMBDA c : c \in Mapped(col_map))

\* Is_Public from the school type (2 public, 3 private) or else from the
\* administrative dependency (1, 2, 3 public, 4 private)
LegacyIsPublic(r, col_map) ==
    IF "SCHOOL_TYPE" \in Mapped(col_map)
    THEN (IF Cell(r, col_map, "SCHOOL_TYPE") = Num(2) THEN Num(1)
          ELSE IF Cell(r, col_map, "SCHOOL_TYPE") = Num(3) THEN Num(0)
          ELSE NaN)
    ELSE IF "SCHOOL_DEP" \in Mapped(col_map)
    THEN (IF Cell(r, col_map, "SCHOOL_DEP") \in {Num(1), Num(2), Num(3)} THEN Num(1)
          ELSE IF Cell(r, col_map, "SCHOOL_DEP") = Num(4) THEN Num(0)
          ELSE NaN)
    ELSE NaN

\* the row after the zero-as-missing rule, with its general mean
LegacyCleanRow(r, col_map) ==
    LET ps == present_scores(col_map)
        val(c) == ReplaceZero(Cell(r, col_map, c))
    IN  [uf |-> r.uf,
         Is_Public |-> LegacyIsPublic(r, col_map),
         v |-> [c \in Range(ps) \cup {"Mean_General"} |->
                  IF c = "Mean_General" THEN MeanSkipNa([i \in 1..Len(ps) |-> val(ps[i])])
                  ELSE val(c)]]

\* chunk_res: per UF and column the sum, the count and the sum of squares,
\* and the sum and count of Is_Public
LegacyChunkAgg(kept, col_map) ==
    LET chunk == SeqMap(LAMBDA r : LegacyCleanRow(r, col_map), kept)
        of(g) == SelectSeq(chunk, LAMBDA r : r.uf = g)
        target_cols == Range(present_scores(col_map)) \cup {"Mean_General"}
    IN  [g \in {chunk[i].uf : i \in 1..Len(chunk)} |->
            [sum |-> [c \in target_cols |-> SumSkipNa(SeqMap(LAMBDA r : r.v[c], of(g)))],
             count |-> [c \in target_cols |-> Num(CountNotNa(SeqMap(LAMBDA r : r.v[c], of(g))))],
             sq |-> [c \in target_cols |-> SumSkipNa(SeqMap(LAMBDA r : RMul(r.v[c], r.v[c]), of(g)))],
             Public_Sum |-> SumSkipNa(SeqMap(LAMBDA r : r.Is_Public, of(g))),
             Network_Valid_Count |-> Num(CountNotNa(SeqMap(LAMBDA r : r.Is_Public, of(g))))]]

\* pd.concat(agg_storage).groupby(level=0).sum()
LegacyFullAgg(aggs, target_cols) ==
    LET with(g) == SelectSeq(aggs, LAMBDA a : g \in DOMAIN a)
    IN  [g \in UNION {DOMAIN aggs[i] : i \in 1..Len(aggs)} |->
            [sum |-> [c \in target_cols |-> SumSkipNa(SeqMap(LAMBDA a : a[g].sum[c], with(g)))],
             count |-> [c \in target_cols |-> SumSkipNa(SeqMap(LAMBDA a : a[g].count[c], with(g)))],
             sq |-> [c \in target_cols |-> SumSkipNa(SeqMap(LAMBDA a : a[g].sq[c], with(g)))],
             Public_Sum |-> SumSkipNa(SeqMap(LAMBDA a : a[g].Public_Sum, with(g))),
             Network_Valid_Count |-> SumSkipNa(SeqMap(LAMBDA a : a[g].Network_Valid_Count, with(g)))]]

LEGACY_UF_REGION_MAP(uf) ==
    CASE uf \in {"RO", "AC", "AM", "RR", "PA", "AP", "TO"} -> "North"
      [] uf \in {"MA", "PI", "CE", "RN", "PB", "PE", "AL", "SE", "BA"} -> "Northeast"
      [] uf \in {"MG", "ES", "RJ", "SP"} -> "Southeast"
      [] uf \in {"PR", "SC", "RS"} -> "South"
      [] uf \in {"MS", "MT", "GO", "DF"} -> "Center-West"
      [] OTHER -> "NaN"

\* variance.clip(lower=0): the square of the reported standard deviation
\* (the table of the model keeps the square, the root not being rational)
ClippedVariance(sq, count, mean) ==
    LET variance == RAdd(RDiv(sq, count), RMul(Num(-1), RMul(mean, mean)))
    IN  IF NotNa(variance) /\ RLess(variance, Num(0)) THEN Num(0) ELSE variance

legacy_tag(filter_mode) ==
    IF filter_mode = "STRICT_3EM" THEN "3EM"
    ELSE IF filter_mode = "PROXY_3EM" THEN "3EM_PROXY"
    ELSE "ALL"

\* the exported table: the selected columns, sorted by the general mean
LegacyFinalDf(full_agg, ps, year, filter_mode) ==
    SortDesc(
        SeqMap(LAMBDA g :
                 [s |-> [c \in {"Year", "Region", "UF", "Grade"} |->
                            CASE c = "Year" -> YearStr(year)
                              [] c = "Region" -> LEGACY_UF_REGION_MAP(g)
                              [] c = "UF" -> g
                              [] OTHER -> legacy_tag(filter_mode)],
                  v |-> [c \in {"Mean_General", "Mean_General_std", "Public_Share",
                                "Network_Data_Coverage"} \cup Range(ps) |->
                            CASE c = "Mean_General_std" ->
                                   ClippedVariance(full_agg[g].sq["Mean_General"],
                                                   full_agg[g].count["Mean_General"],
                                                   RDiv(full_agg[g].sum["Mean_General"],
                                                        full_agg[g].count["Mean_General"]))
                              [] c = "Public_Share" ->
                                   RDiv(full_agg[g].Public_Sum, full_agg[g].Network_Valid_Count)
                              [] c = "Network_Data_Coverage" ->
                                   IF "Essay" \in Range(ps)
                                   THEN RDiv(full_agg[g].Network_Valid_Count, full_agg[g].count["Essay"])
                                   ELSE NaN
                              [] OTHER -> RDiv(full_agg[g].sum[c], full_agg[g].count[c])]],
               SortedKeys(DOMAIN full_agg)),
        "Mean_General")

\* header detection, column mapping, the mandatory check and the choice of
\* the methodology
L_Start ==
    /\ prog = "enem_legacy"
    /\ pc = "start"
    /\ LET col_map == LegacyColMap(header)
       IN  /\ resolved' = [col_map |-> col_map, filter_mode |-> legacy_filter_mode(col_map)]
           /\ IF missing_critical(header) # << >>
              THEN pc' = "done" /\ log' = Append(log, "CRITICAL missing mandatory columns")
              ELSE pc' = "stream" /\ log' = Append(log, "CONFIG methodology")
    /\ UNCHANGED <<prog, header, rows, request, pos, chunk_aggs, df_final, written>>

\* the score cells are never coerced: a text cell makes its column of the
\* chunk an object column, and squaring a kept text value raises; strs says
\* the parser left the numbers of such a column as text too
LegacyPowRaises(chunk, kept, col_map, strs) ==
    \E c \in Range(present_scores(col_map)) :
        \/ \E i \in 1..Len(kept) : Cell(kept[i], col_map, c) = TextCell
        \/ /\ strs
           /\ \E i \in 1..Len(chunk) : Cell(chunk[i], col_map, c) = TextCell
           /\ \E i \in 1..Len(kept) : NotNa(Cell(kept[i], col_map, c))

\* one chunk: filter, skip when nothing is left, else aggregate; an
\* exception leaves the loop and ends the run
L_ReadChunk ==
    /\ prog = "enem_legacy"
    /\ pc = "stream"
    /\ \E n \in 1..(Len(rows) - pos), strs \in BOOLEAN :
          LET chunk == SubSeq(rows, pos + 1, pos + n)
              kept == SelectSeq(chunk, LAMBDA r : LegacyKeep(r, resolved.col_map, resolved.filter_mode))
          IN  /\ pos' = pos + n
              /\ IF kept = << >>
                 THEN UNCHANGED <<chunk_aggs, pc, log>>
                 ELSE IF \/ "UF" \notin Mapped(resolved.col_map)
                         \/ LegacyPowRaises(chunk, kept, resolved.col_map, strs)
                 THEN /\ pc' = "done"
                      /\ log' = Append(log, "CRITICAL ERROR")
                      /\ chunk_aggs' = chunk_aggs
                 ELSE /\ chunk_aggs' = Append(chunk_aggs, LegacyChunkAgg(kept, resolved.col_map))
                      /\ UNCHANGED <<pc, log>>
    /\ UNCHANGED <<prog, header, rows, request, resolved, df_final, written>>

\* consolidation and export once the stream is exhausted
L_Finalize ==
    /\ prog = "enem_legacy"
    /\ pc = "stream"
    /\ pos = Len(rows)
    /\ LET ps == present_scores(resolved.col_map)
           full_agg == LegacyFullAgg(chunk_aggs, Range(ps) \cup {"Mean_General"})
       IN  IF chunk_aggs = << >>
           THEN /\ log' = Append(log, "WARN no data after filtering")
                /\ UNCHANGED <<df_final, written>>
           ELSE /\ df_final' = LegacyFinalDf(full_agg, ps, request.year, resolved.filter_mode)
                /\ written' = Append(written, [name |-> <<"enem_table", legacy_tag(resolved.filter_mode)>>,
                                               table |-> df_final'])
                /\ log' = Append(log, "Saved")
    /\ pc' = "done"
    /\ UNCHANGED <<prog, header, rows, request, resolved, pos, chunk_aggs>>

HeadersL ==
    {<<"SG_UF_PROVA", "TP_ST_CONCLUSAO", "NU_NOTA_MT", "NU_NOTA_REDACAO">>,
     <<"SG_UF_PROVA", "CO_ESCOLA", "TP_ESCOLA", "NU_NOTA_MT">>,
     <<"SG_UF_PROVA", "TP_DEPENDENCIA_ADM_ESC", "NU_NOTA_MT">>,
     <<"TP_ST_CONCLUSAO", "NU_NOTA_MT", "NU_NOTA_REDACAO">>,
     <<"SG_UF_PROVA", "TP_ST_CONCLUSAO">>}

CellsL(p) ==
    CASE p = "TP_ST_CONCLUSAO" -> {Num(1), Num(2)}
      [] p = "CO_ESCOLA" -> {NaN, Num(7)}
      [] p = "TP_ESCOLA" -> {Num(2), Num(3)}
      [] p = "TP_DEPENDENCIA_ADM_ESC" -> {Num(2), Num(4)}
      [] p = "NU_NOTA_MT" -> {Num(0), Num(500), Num(600)}
      [] OTHER -> {NaN, TextCell, Num(400)}

RowsL(hdr) ==
    LET num == Range(hdr) \ {"SG_UF_PROVA"}
    IN  {[uf |-> u, sc |-> f] :
            u \in (IF HasUF(hdr) THEN Range(UFS) ELSE {""}),
            f \in {f \in [num -> {NaN, TextCell, Num(0), Num(1), Num(2), Num(3), Num(4), Num(7),
                                  Num(400), Num(500), Num(600)}] :
                      \A p \in num : f[p] \in CellsL(p)}}

InitLegacy ==
    /\ prog = "enem_legacy"
    /\ header \in HeadersL
    /\ rows \in SeqsUpTo(RowsL(header), MaxRowsU)
    /\ request = [year |-> 2019]
    /\ pc = "start"
    /\ resolved = [col_map |-> << >>, filter_mode |-> "ALL"]
    /\ pos = 0
    /\ chunk_aggs = << >>
    /\ df_final = << >>
    /\ written = << >>
    /\ log = << >>

InitB == InitHist \/ InitLegacy

NextB ==
    \/ B_Start
    \/ B_Grade
    \/ L_Start
    \/ L_ReadChunk
    \/ L_Finalize

SpecB == InitB /\ [][NextB]_vars

\* the header has a regional-key column of the running script
KeyColumnPresent ==
    \E i \in 1..Len(header) :
        Upper(header[i]) \in (IF prog = "enem_legacy"
                              THEN {"SG_UF_PROVA", "UF_PROVA", "SG_UF_ESC"}
                              ELSE {"ID_UF", "CO_UF", "UF", "SG_UF"})

\* the header has both score columns of a SAEB grade
BothScores(g) ==
    \/ g = "5EF" /\ {"MEDIA_5EF_LP", "MEDIA_5EF_MT"} \subseteq Range(header)
    \/ g = "9EF" /\ {"MEDIA_9EF_LP", "MEDIA_9EF_MT"} \subseteq Range(header)
    \/ g = "3EM" /\ {"MEDIA_EM_LP", "MEDIA_EM_MT"} \subseteq Range(header)

NothingRead == pos = 0 /\ chunk_aggs = << >> /\ written = << >>

MaxHdr == 3

\* the column names a header of each script is drawn from
PoolR(script) ==
    IF script = "enem_unified"
    THEN {"SG_UF_PROVA", "sg_uf_prova", "SG_UF_RESIDENCIA", "CO_ESCOLA", "co_escola",
          "TP_ST_CONCLUSAO", "NU_NOTA_MT", "NU_NOTA_CN"}
    ELSE {"ID_UF", "id_uf", "SG_UF", "IN_PUBLICA", "ID_DEPENDENCIA_ADM", "DEPENDENCIA_ADM",
          "MEDIA_9EF_LP", "MEDIA_9EF_MT", "MEDIA_9EF_LP_MT", "NU_PRESENTES_9EF"}

\* pd.read_csv(nrows=0).columns: non-empty headers of distinct names
HeadersR(script) ==
    {h \in SeqsUpTo(PoolR(script), MaxHdr) :
        /\ h # << >>
        /\ \A i, j \in 1..Len(h) : i # j => h[i] # h[j]}

\* cog_02: col_map built from TARGET_COLS
R_Enem ==
    /\ prog = "enem_unified"
    /\ pc = "header"
    /\ resolved' = [col_map |-> EnemColMap(header)]
    /\ pc' = "resolved"
    /\ UNCHANGED <<prog, header, rows, request, pos, chunk_aggs, df_final, written, log>>

\* 01_process_saeb_historical: network column, UF column and grade columns
R_SaebHistorical ==
    /\ prog = "saeb_historical"
    /\ pc = "header"
    /\ resolved' = [col_adm |-> saeb_find_col_flexible(header, network_candidates, "DEPENDENCIA"),
                    col_uf |-> saeb_find_col_flexible(header, <<"ID_UF", "CO_UF", "UF", "SG_UF">>, ""),
                    grades |-> [g \in {"5EF", "9EF", "3EM"} |-> GradeColumns(header, request.year, g)]]
    /\ pc' = "resolved"
    /\ UNCHANGED <<prog, header, rows, request, pos, chunk_aggs, df_final, written, log>>

\* cog_03: network column, UF column and the columns of each grade
R_SaebUnified ==
    /\ prog = "saeb_unified"
    /\ pc = "header"
    /\ resolved' = [col_adm |-> SaebColAdm(header),
                    col_uf |-> SaebColUf(header),
                    grades |-> [g \in {"9EF", "3EM"} |-> find_grade_columns(header, g)]]
    /\ pc' = "resolved"
    /\ UNCHANGED <<prog, header, rows, request, pos, chunk_aggs, df_final, written, log>>

InitR ==
    /\ prog \in {"enem_unified", "saeb_historical", "saeb_unified"}
    /\ header \in HeadersR(prog)
    /\ rows = << >>
    /\ request = [year |-> 2019]
    /\ pc = "header"
    /\ resolved = << >>
    /\ pos = 0
    /\ chunk_aggs = << >>
    /\ df_final = << >>
    /\ written = << >>
    /\ log = << >>

NextR ==
    \/ R_Enem
    \/ R_SaebHistorical
    \/ R_SaebUnified

SpecR == InitR /\ [][NextR]_vars

\* res is what the resolution order prescribes for the header: the column
\* equal, ignoring case, to the earliest candidate that has an equal column;
\* failing that the first column containing the token; failing that nothing
ResolvesAs(res, hdr, candidates, token) ==
    LET exact == {n \in 1..Len(candidates) :
                    \E i \in 1..Len(hdr) : Upper(hdr[i]) = Upper(candidates[n])}
        sub == IF token = "" THEN {} ELSE {i \in 1..Len(hdr) : Contains(token, hdr[i])}
    IN  /\ exact # {} =>
            /\ res \in Range(hdr)
            /\ \E n \in exact : (\A m \in exact : n <= m) /\ Upper(res) = Upper(candidates[n])
        /\ (exact = {} /\ sub # {}) =>
            \E i \in sub : (\A j \in sub : i <= j) /\ res = hdr[i]
        /\ (exact = {} /\ sub = {}) => res = NoCol

\* C11: find_col_flexible returns the column matching the earliest matching
\* candidate, consults the substring token only when no candidate matches
\* (first containing column in header order), and returns None only when
\* neither step matches; the ENEM resolver has the exact step alone
FlexibleResolutionOrder ==
    /\ (prog = "saeb_historical" /\ pc = "resolved") =>
          /\ ResolvesAs(resolved.col_adm, header, network_candidates, "DEPENDENCIA")
          /\ ResolvesAs(resolved.col_uf, header, <<"ID_UF", "CO_UF", "UF", "SG_UF">>, "")
    /\ (prog = "enem_unified" /\ pc = "resolved") =>
          \A k \in Range(LogicalOrder) :
              IF k \in Mapped(resolved.col_map)
              THEN ResolvesAs(PhysOf(resolved.col_map, k), header, TARGET_COLS[k], "")
              ELSE ResolvesAs(NoCol, header, TARGET_COLS[k], "")

\* a header where the token column comes first and the second candidate
\* before the first: the first candidate's column is returned
FlexibleResolutionWitness ==
    /\ prog = "saeb_historical"
    /\ pc = "resolved"
    /\ header = <<"DEPENDENCIA_ADM", "ID_DEPENDENCIA_ADM", "IN_PUBLICA">>
    /\ resolved.col_adm = "IN_PUBLICA"
    /\ resolved.col_uf = NoCol

\* the resolved columns among fs are pairwise different
Distinct(fs) ==
    \A i, j \in 1..Len(fs) : (i # j /\ fs[i] # NoCol /\ fs[j] # NoCol) => fs[i] # fs[j]

\* C12 as stated: after one resolution pass no physical column serves two
\* logical fields (language and math score of a grade, student count,
\* regional key, network flag), and every ENEM logical field with a
\* candidate column in the header keeps its mapping
NoDoubleMapping ==
    pc = "resolved" =>
        /\ prog = "saeb_unified" =>
              \A g \in {"9EF", "3EM"} :
                  Distinct(<<resolved.grades[g].lp, resolved.grades[g].mt, resolved.grades[g].qty,
                             resolved.col_adm, resolved.col_uf>>)
        /\ prog = "saeb_historical" =>
              \A g \in {"5EF", "9EF", "3EM"} :
                  Distinct(<<resolved.grades[g].lp, resolved.grades[g].mt,
                             resolved.col_adm, resolved.col_uf>>)
        /\ prog = "enem_unified" =>
              \A k \in Range(LogicalOrder) :
                  (\E i \in 1..Len(header), n \in 1..Len(TARGET_COLS[k]) :
                      Upper(header[i]) = TARGET_COLS[k][n])
                      => k \in Mapped(resolved.col_map)

\* the 27 state abbreviations and the 5 macro-regions
StateSet == {IBGE_TO_SIGLA(code) : code \in 11..53} \ {"NaN"}

RegionSet == {"North", "Northeast", "Southeast", "South", "Center-West"}

\* C13 as stated: every group of every written table is a state of the
\* closed set (a macro-region for PISA); a row with any other regional key
\* creates no group
ClosedGroupKeySet ==
    \A i \in 1..Len(written) : \A j \in 1..Len(written[i].table) :
        LET key == written[i].table[j].s
        IN  /\ "UF" \in DOMAIN key => key["UF"] \in StateSet
            /\ "Region" \in DOMAIN key => key["Region"] \in RegionSet

(***************************************************************************)
(* The stream of the csv member in SaebPipeline.process of                 *)
(* src/cog/01_process_saeb_historical.py: separator sniffing, header read, *)
(* header retry and full read, with the offset counted in lines            *)
(***************************************************************************)
MaxLines == 2

\* line.count(c) for a line given by its separator and its fields
CountSep(line, c) == IF line.sep = c /\ line.names # << >> THEN Len(line.names) - 1 ELSE 0

\* f.readline() at an offset: the line there, the empty line at end of file
ReadLine(lines, offset) ==
    IF offset < Len(lines) THEN lines[offset + 1] ELSE [sep |-> ";", names |-> << >>]

\* f_handle.seek(target)
Seek(offset, target) == target

\* a wrong sniffer: the failure path returns the default without rewinding
detect_separator_no_rewind(lines, offset, fails, at) ==
    IF fails
    THEN [ret |-> ";", offset |-> at, failed |-> TRUE]
    ELSE LET line == ReadLine(lines, offset)
         IN  [ret |-> IF CountSep(line, ";") > CountSep(line, ",") THEN ";" ELSE ",",
              offset |-> Seek(offset + 1, 0), failed |-> FALSE]

\* detect_separator: fails says the read or the decoding of the first line
\* raised, leaving the stream at offset at
detect_separator(lines, offset, fails, at) ==
    IF fails
    THEN [ret |-> ";", offset |-> Seek(at, 0), failed |-> TRUE]
    ELSE LET line == ReadLine(lines, offset)
         IN  [ret |-> IF CountSep(line, ";") > CountSep(line, ",") THEN ";" ELSE ",",
              offset |-> Seek(offset + 1, 0), failed |-> FALSE]

\* the columns pd.read_csv(sep=sep, nrows=0) makes of a line: a line written
\* with the other separator is one column
ParseHeader(line, sep) ==
    IF line.sep = sep \/ Len(line.names) < 2 THEN line.names ELSE <<"joined">>

\* sep = self.detect_separator(f)
D_DetectSeparator ==
    /\ prog = "saeb_stream"
    /\ pc = "start"
    /\ \E fails \in BOOLEAN, at \in 0..1 :
          LET r == detect_separator(rows, pos, fails, at)
          IN  /\ resolved' = [sep |-> r.ret]
              /\ pos' = r.offset
              /\ log' = Append(log, [op |-> "detect_separator", failed |-> r.failed,
                                     ret |-> r.ret, offset |-> r.offset])
    /\ pc' = "header"
    /\ UNCHANGED <<prog, header, rows, request, chunk_aggs, df_final, written>>

\* the first header read, from the current offset; the parser reads ahead,
\* so the offset it leaves is anywhere between the next line and the end;
\* a stream with nothing left raises and ends the run
D_ReadHeader ==
    /\ prog = "saeb_stream"
    /\ pc = "header"
    /\ IF pos >= Len(rows)
       THEN /\ pc' = "done"
            /\ log' = Append(log, [op |-> "error", offset |-> pos])
            /\ UNCHANGED <<header, pos>>
       ELSE /\ header' = ParseHeader(rows[pos + 1], resolved.sep)
            /\ \E after \in (pos + 1)..Len(rows) : pos' = after
            /\ log' = Append(log, [op |-> "read_header", offset |-> pos])
            /\ pc' = IF Len(header') < 2 THEN "retry" ELSE "load"
    /\ UNCHANGED <<prog, rows, request, resolved, chunk_aggs, df_final, written>>

\* len(header) < 2: the other separator, a rewind and a second header read
D_RetryHeader ==
    /\ prog = "saeb_stream"
    /\ pc = "retry"
    /\ LET sep == IF resolved.sep = ";" THEN "," ELSE ";"
           offset == Seek(pos, 0)
       IN  /\ resolved' = [sep |-> sep]
           /\ header' = ParseHeader(rows[offset + 1], sep)
           /\ \E after \in (offset + 1)..Len(rows) : pos' = after
           /\ log' = Append(log, [op |-> "read_header", offset |-> offset])
    /\ pc' = "load"
    /\ UNCHANGED <<prog, rows, request, chunk_aggs, df_final, written>>

\* column resolution, then either the return on a header without grade
\* columns or the rewind and the full read of the member
D_Load ==
    /\ prog = "saeb_stream"
    /\ pc = "load"
    /\ IF grades_to_process(header, request.year) = << >>
       THEN /\ log' = Append(log, [op |-> "return", offset |-> pos])
            /\ UNCHANGED <<pos, chunk_aggs>>
       ELSE LET offset == Seek(pos, 0)
            IN  /\ chunk_aggs' = SubSeq(rows, offset + 2, Len(rows))
                /\ pos' = Len(rows)
                /\ log' = Append(log, [op |-> "read_full", offset |-> offset])
    /\ pc' = "done"
    /\ UNCHANGED <<prog, header, rows, request, resolved, df_final, written>>

\* the header lines and data lines of the modelled members
HeaderLinesD ==
    {[sep |-> c, names |-> n] :
        c \in {";", ","},
        n \in {<<"ID_UF", "MEDIA_9EF_LP", "MEDIA_9EF_MT">>,
               <<"ID_UF", "ID_DEPENDENCIA_ADM">>,
               <<"MEDIA_9EF_LP", "MEDIA_9EF_MT">>,
               <<"ID_UF">>}}

DataLinesD(h) ==
    {[sep |-> h.sep, names |-> [i \in 1..Len(h.names) |-> v]] : v \in {"13", "250"}}

InitD ==
    /\ prog = "saeb_stream"
    /\ header = << >>
    /\ \/ rows = << >>
       \/ \E h \in HeaderLinesD : \E d \in SeqsUpTo(DataLinesD(h), MaxLines) : rows = <<h>> \o d
    /\ request = [year |-> 2019]
    /\ pc = "start"
    /\ resolved = [sep |-> ""]
    /\ pos = 0
    /\ chunk_aggs = << >>
    /\ df_final = << >>
    /\ written = << >>
    /\ log = << >>

NextD ==
    \/ D_DetectSeparator
    \/ D_ReadHeader
    \/ D_RetryHeader
    \/ D_Load

SpecD == InitD /\ [][NextD]_vars

\* C14: detect_separator leaves the stream at offset 0 in every outcome and
\* returns ';' without raising when the first line cannot be read or
\* decoded; every header read and the full read start at offset 0
SniffNonDestructive ==
    /\ pc = "header" => pos = 0
    /\ pc # "start" => Len(log) >= 1 /\ log[1].op = "detect_separator"
    /\ \A i \in 1..Len(log) :
          /\ log[i].op = "detect_separator" =>
                log[i].offset = 0 /\ (log[i].failed => log[i].ret = ";")
          /\ log[i].op \in {"read_header", "read_full"} => log[i].offset = 0

\* a comma-separated member whose first line could not be decoded: the
\* default ';' was returned, the header was read twice and the three lines
\* were loaded, each read from offset 0
SniffNonDestructiveWitness ==
    /\ prog = "saeb_stream"
    /\ pc = "done"
    /\ Len(rows) = 3
    /\ rows[1].sep = ","
    /\ Len(log) = 4
    /\ log[1].op = "detect_separator" /\ log[1].failed /\ log[1].ret = ";"
    /\ log[2].op = "read_header" /\ log[3].op = "read_header"
    /\ log[4].op = "read_full" /\ log[4].offset = 0
    /\ Len(chunk_aggs) = 2

\* the values of internal score c in the kept rows of group g that parse as
\* a number other than the zero sentinel
LegacyParsed(g, c) ==
    LET kept == SelectSeq(rows, LAMBDA r : r.uf = g /\ LegacyKeep(r, resolved.col_map, resolved.filter_mode))
    IN  SelectSeq(SeqMap(LAMBDA r : ReplaceZero(to_numeric(Cell(r, resolved.col_map, c))), kept), NotNa)

\* C15 as stated, for the legacy ENEM run on a file with its regional key:
\* whatever the score cells hold, the loop ends without raising, and each
\* reported score mean is the mean of the parseable values of its own field
MalformedAbsorbed ==
    (prog = "enem_legacy" /\ pc = "done" /\ KeyColumnPresent) =>
        /\ "CRITICAL ERROR" \notin Range(log)
        /\ \A i \in 1..Len(written) : \A j \in 1..Len(written[i].table) :
              \A c \in Range(present_scores(resolved.col_map)) :
                  written[i].table[j].v[c] = MeanSkipNa(LegacyParsed(written[i].table[j].s["UF"], c))

\* the modes the unified ENEM run has to execute on the file
ModesToRun == {m \in {"STRICT", "PROXY"} : Requested(m) /\ ModeResolved(m)}

\* C16 as stated, for the unified ENEM run on a file with all its columns:
\* when a mode keeps no row, the run ends without an exception, and every
\* other mode that keeps rows still gets its table
EmptyGroupSetWarns ==
    (/\ prog = "enem_unified"
     /\ pc = "done"
     /\ Range(score_cols_U) \cup {"UF"} \subseteq Mapped(resolved.col_map)
     /\ \E m \in ModesToRun : KeptBy(m) = << >>) =>
        /\ "ERRO" \notin Range(log)
        /\ \A m \in ModesToRun :
              KeptBy(m) # << >> => \E i \in 1..Len(written) : written[i].name = <<"enem_table", m>>

\* C17 as stated, for the unified SAEB run: under the PUBLIC and the PRIVATE
\* filter a row whose network value is missing or not a number is kept by
\* neither, so a file with such rows only yields no table
FilterCoercionDrops ==
    (/\ prog = "saeb_unified"
     /\ SaebColAdm(header) # NoCol
     /\ request.filter_network \in {"PUBLIC", "PRIVATE"}
     /\ \A i \in 1..Len(rows) : IsNaN(to_numeric(rows[i].sc[SaebColAdm(header)]))) =>
        written = << >>

\* C18 as stated, for the historical ENEM run: the general mean reported for
\* a state is the mean of the state's finalized subject means
GeneralMeanAfterFinalization ==
    prog = "enem_historical" =>
        \A j \in 1..Len(df_final) :
            LET subject == [i \in 1..Len(resolved.score_cols) |->
                              df_final[j].v[SCORE_MAP[resolved.score_cols[i]]]]
            IN  df_final[j].v["Mean_General"] = MeanSkipNa(subject)

(***************************************************************************)
(* PisaUnifiedETL._apply_standardization of                                *)
(* src/cog/cog_01_process_unified_pisa_pipeline.py                         *)
(***************************************************************************)
\* the characters of the column names and tokens of the standardizer
Letters(n) ==
    CASE n = "Region" -> <<"R", "e", "g", "i", "o", "n">>
      [] n = "Student_Count" -> <<"S", "t", "u", "d", "e", "n", "t", "_", "C", "o", "u", "n", "t">>
      [] n = "Math_Mean" -> <<"M", "a", "t", "h", "_", "M", "e", "a", "n">>
      [] n = "Read_Mean" -> <<"R", "e", "a", "d", "_", "M", "e", "a", "n">>
      [] n = "Science_Mean" -> <<"S", "c", "i", "e", "n", "c", "e", "_", "M", "e", "a", "n">>
      [] n = "Cognitive_Global_Mean" -> <<"C", "o", "g", "n", "i", "t", "i", "v", "e", "_", "G", "l", "o", "b", "a", "l", "_", "M", "e", "a", "n">>
      [] n = "Matematica_Ponderada" -> <<"M", "a", "t", "e", "m", "a", "t", "i", "c", "a", "_", "P", "o", "n", "d", "e", "r", "a", "d", "a">>
      [] n = "Leitura_Ponderada" -> <<"L", "e", "i", "t", "u", "r", "a", "_", "P", "o", "n", "d", "e", "r", "a", "d", "a">>
      [] n = "Ciencias_Ponderada" -> <<"C", "i", "e", "n", "c", "i", "a", "s", "_", "P", "o", "n", "d", "e", "r", "a", "d", "a">>
      [] n = "Cognitive_Global_Mean_Ponderada" -> <<"C", "o", "g", "n", "i", "t", "i", "v", "e", "_", "G", "l", "o", "b", "a", "l", "_", "M", "e", "a", "n", "_", "P", "o", "n", "d", "e", "r", "a", "d", "a">>
      [] n = "IBGE_CODE" -> <<"I", "B", "G", "E", "_", "C", "O", "D", "E">>
      [] n = "Math" -> <<"M", "a", "t", "h">>
      [] n = "Read" -> <<"R", "e", "a", "d">>
      [] n = "Science" -> <<"S", "c", "i", "e", "n", "c", "e">>
      [] n = "Math_Ponderada" -> <<"M", "a", "t", "h", "_", "P", "o", "n", "d", "e", "r", "a", "d", "a">>
      [] n = "Read_Ponderada" -> <<"R", "e", "a", "d", "_", "P", "o", "n", "d", "e", "r", "a", "d", "a">>
      [] n = "Science_Ponderada" -> <<"S", "c", "i", "e", "n", "c", "e", "_", "P", "o", "n", "d", "e", "r", "a", "d", "a">>
      [] n = "UF" -> <<"U", "F">>
      [] n = "Regiao" -> <<"R", "e", "g", "i", "a", "o">>
      [] n = "N_Alunos" -> <<"N", "_", "A", "l", "u", "n", "o", "s">>
      [] n = "Matematica" -> <<"M", "a", "t", "e", "m", "a", "t", "i", "c", "a">>
      [] n = "Leitura" -> <<"L", "e", "i", "t", "u", "r", "a">>
      [] n = "Ciencias" -> <<"C", "i", "e", "n", "c", "i", "a", "s">>
      [] n = "Media_Geral" -> <<"M", "e", "d", "i", "a", "_", "G", "e", "r", "a", "l">>
      [] n = "Media_Geral_Ponderada" -> <<"M", "e", "d", "i", "a", "_", "G", "e", "r", "a", "l", "_", "P", "o", "n", "d", "e", "r", "a", "d", "a">>
      [] n = "Ano" -> <<"A", "n", "o">>
      [] n = "_Ponderada" -> <<"_", "P", "o", "n", "d", "e", "r", "a", "d", "a">>
      [] n = "Ponderada" -> <<"P", "o", "n", "d", "e", "r", "a", "d", "a">>
      [] n = "_Mean" -> <<"_", "M", "e", "a", "n">>
      [] n = "###" -> <<"#", "#", "#">>

KnownNames ==
    {"Region", "Student_Count", "Math_Mean", "Read_Mean", "Science_Mean",
     "Cognitive_Global_Mean", "Matematica_Ponderada", "Leitura_Ponderada", "Ciencias_Ponderada", "Cognitive_Global_Mean_Ponderada",
     "IBGE_CODE", "Math", "Read", "Science", "Math_Ponderada",
     "Read_Ponderada", "Science_Ponderada", "UF", "Regiao", "N_Alunos",
     "Matematica", "Leitura", "Ciencias", "Media_Geral", "Media_Geral_Ponderada",
     "Ano", "_Ponderada", "Ponderada", "_Mean", "###"}

\* the string made of the characters cs
FromLetters(cs) == CHOOSE n \in KnownNames : Letters(n) = cs

\* the characters of the names, in code-point order
Alphabet == <<"#", "A", "B", "C", "D", "E", "F", "G", "I", "L", "M", "N", "O", "P", "R", "S", "U", "_", "a", "b", "c", "d", "e", "g", "h", "i", "l", "m", "n", "o", "r", "s", "t", "u", "v">>

CodePoint(ch) == CHOOSE i \in 1..Len(Alphabet) : Alphabet[i] = ch

RECURSIVE LettersLess(_, _)
\* a < b for two strings given by their characters
LettersLess(a, b) ==
    IF b = << >> THEN FALSE
    ELSE IF a = << >> THEN TRUE
    ELSE IF Head(a) # Head(b) THEN CodePoint(Head(a)) < CodePoint(Head(b))
    ELSE LettersLess(Tail(a), Tail(b))

\* x in col
StrIn(x, col) ==
    LET X == Letters(x)
        H == Letters(col)
    IN  \E i \in 0..(Len(H) - Len(X)) : SubSeq(H, i + 1, i + Len(X)) = X

RECURSIVE Removed(_, _)
\* h.replace(x, '') on characters
Removed(h, x) ==
    IF Len(h) < Len(x) THEN h
    ELSE IF SubSeq(h, 1, Len(x)) = x THEN Removed(SubSeq(h, Len(x) + 1, Len(h)), x)
    ELSE <<Head(h)>> \o Removed(Tail(h), x)

RECURSIVE Sorted(_)
\* sorted(names)
Sorted(S) ==
    IF S = {} THEN << >>
    ELSE LET m == CHOOSE n \in S : \A k \in S \ {n} : LettersLess(Letters(n), Letters(k))
         IN  <<m>> \o Sorted(S \ {m})

translate_map ==
    [k \in {"Region", "Math", "Math_Mean", "Read", "Read_Mean", "Science", "Science_Mean",
            "Cognitive_Global_Mean", "Student_Count"} |->
        CASE k = "Region" -> "Regiao"
          [] k \in {"Math", "Math_Mean"} -> "Matematica"
          [] k \in {"Read", "Read_Mean"} -> "Leitura"
          [] k \in {"Science", "Science_Mean"} -> "Ciencias"
          [] k = "Cognitive_Global_Mean" -> "Media_Geral"
          [] OTHER -> "N_Alunos"]

region_trans(x) ==
    CASE x = "North" -> "Norte"
      [] x = "Northeast" -> "Nordeste"
      [] x = "Southeast" -> "Sudeste"
      [] x = "South" -> "Sul"
      [] x = "Center-West" -> "Centro-Oeste"
      [] OTHER -> x

\* self.concept_matcher.get(concept_key, '###')
concept_matcher(concept_key) ==
    CASE concept_key = "Math" -> "Matematica"
      [] concept_key = "Read" -> "Leitura"
      [] concept_key = "Science" -> "Ciencias"
      [] concept_key = "Global" -> "Media_Geral"
      [] concept_key = "Count" -> "N_Alunos"
      [] OTHER -> "###"

\* step 2: df.rename(columns=self.translate_map)
RenameSimple(col) == IF col \in DOMAIN translate_map THEN translate_map[col] ELSE col

\* step 3: the new name of a weighted column, built from the translation of
\* its base name or of its base name followed by _Mean
RenameWeighted(col) ==
    LET base == Removed(Letters(col), Letters("_Ponderada"))
        hit(cs) == {k \in DOMAIN translate_map : Letters(k) = cs}
        named(cs) == FromLetters(Letters(translate_map[CHOOSE k \in hit(cs) : TRUE]) \o Letters("_Ponderada"))
    IN  IF ~StrIn("_Ponderada", col) THEN col
        ELSE IF hit(base) # {} THEN named(base)
        ELSE IF hit(base \o Letters("_Mean")) # {} THEN named(base \o Letters("_Mean"))
        ELSE col

\* the name a column of the input frame has after steps 2 and 3
StandardName(col) == RenameWeighted(RenameSimple(col))

base_mandatory == {"Ano", "Regiao", "UF", "IBGE_CODE", "N_Alunos", "Student_Count"}

\* step 4: the column passes the mandatory, concept and method checks
KeepCol(col, mode, user_concepts) ==
    \/ col \in base_mandatory
    \/ /\ user_concepts # {} => \E concept_key \in user_concepts : StrIn(concept_matcher(concept_key), col)
       /\ \/ mode = "BOTH"
          \/ mode = "WEIGHTED" /\ StrIn("Ponderada", col)
          \/ mode = "SIMPLE" /\ ~StrIn("Ponderada", col)

priority == <<"Ano", "Regiao", "UF", "Media_Geral", "Media_Geral_Ponderada", "N_Alunos">>

\* a wrong step 5: the remaining columns stay in the order of the frame
OrderedColumnsUnsorted(columns) ==
    SelectSeq(priority, LAMBDA c : c \in Range(columns))
        \o SelectSeq(columns, LAMBDA c : c \notin Range(priority))

\* step 5: the priority columns that exist, then the others sorted
OrderedColumns(columns) ==
    SelectSeq(priority, LAMBDA c : c \in Range(columns))
        \o Sorted({c \in Range(columns) : c \notin Range(priority)})

\* _apply_standardization(df, year) for a frame given by its columns and its
\* rows (text cells in s, numbers in v)
apply_standardization(columns, rs, year, mode, user_concepts) ==
    LET renamed == SeqMap(StandardName, columns)
        all_cols == IF "Ano" \in Range(renamed) THEN renamed ELSE Append(renamed, "Ano")
        keep_cols == SelectSeq(all_cols, LAMBDA c : KeepCol(c, mode, user_concepts))
        ordered == OrderedColumns(keep_cols)
        source(c) == CHOOSE k \in Range(columns) : StandardName(k) = c
        row(r) == [s |-> [c \in {c \in Range(ordered) : c # "Ano" /\ source(c) \in DOMAIN r.s} |->
                            IF source(c) = "Region" THEN region_trans(r.s[source(c)])
                            ELSE r.s[source(c)]],
                   v |-> [c \in {c \in Range(ordered) : c = "Ano" \/ source(c) \in DOMAIN r.v} |->
                            IF c = "Ano" THEN Num(year) ELSE r.v[source(c)]]]
        final_rows == SeqMap(row, rs)
    IN  [columns |-> ordered,
         rows |-> IF "Media_Geral" \in Range(ordered) THEN SortDesc(final_rows, "Media_Geral")
                  ELSE IF "Media_Geral_Ponderada" \in Range(ordered)
                  THEN SortDesc(final_rows, "Media_Geral_Ponderada")
                  ELSE final_rows]

\* df['Region'] = df['Region'].replace(self.region_trans), the assignment
\* made on the frame handed in before the first rename copies it
ReplaceRegion(columns, rs) ==
    IF "Region" \in Range(columns)
    THEN SeqMap(LAMBDA r : [r EXCEPT !.s["Region"] = region_trans(@)], rs)
    ELSE rs

\* final_df = self._apply_standardization(summary, year): rows is the
\* caller's summary, df_final the frame returned
P_Standardize ==
    /\ prog = "pisa_standardize"
    /\ pc = "start"
    /\ df_final' = apply_standardization(header, rows, request.year, request.mode, request.user_concepts)
    /\ rows' = ReplaceRegion(header, rows)
    /\ pc' = "done"
    /\ pos' = Len(rows)
    /\ UNCHANGED <<prog, header, request, resolved, chunk_aggs, written, log>>

\* the columns of the summary a run hands to the standardizer: the state
\* tables of 2015 and the regional tables of 2018 and 2022, with the simple
\* and the weighted means the mode produced (weighted absent when
\* _calc_weighted returned None)
SummaryColumns(year, mode, weighted) ==
    LET simple == mode \in {"SIMPLE", "BOTH"}
        pond == mode \in {"WEIGHTED", "BOTH"} /\ weighted
    IN  IF year = 2015
        THEN <<"IBGE_CODE", "Student_Count">>
                \o (IF simple THEN <<"Math", "Read", "Science", "Cognitive_Global_Mean">> ELSE << >>)
                \o (IF pond THEN <<"Math_Ponderada", "Read_Ponderada", "Science_Ponderada",
                                   "Cognitive_Global_Mean_Ponderada">> ELSE << >>)
                \o <<"UF", "Region">>
        ELSE <<"Region", "Student_Count">>
                \o (IF simple THEN <<"Math_Mean", "Read_Mean", "Science_Mean", "Cognitive_Global_Mean">> ELSE << >>)
                \o (IF pond THEN <<"Matematica_Ponderada", "Leitura_Ponderada", "Ciencias_Ponderada",
                                   "Cognitive_Global_Mean_Ponderada">> ELSE << >>)

\* one row of a summary: a region (for 2015 a state of that region) with its
\* simple and weighted global means
SummaryRow(columns, region, g, w) ==
    [s |-> [c \in Range(columns) \cap {"UF", "Region"} |->
              IF c = "Region" THEN region
              ELSE CASE region = "North" -> "AM" [] region = "South" -> "RS" [] OTHER -> "SP"],
     v |-> [c \in Range(columns) \ {"UF", "Region"} |->
              CASE c = "IBGE_CODE" ->
                     (CASE region = "North" -> Num(13) [] region = "South" -> Num(43) [] OTHER -> Num(35))
                [] c = "Student_Count" -> Num(10)
                [] c = "Cognitive_Global_Mean" -> g
                [] c = "Cognitive_Global_Mean_Ponderada" -> w
                [] c \in {"Math", "Math_Mean", "Read", "Read_Mean", "Science", "Science_Mean"} -> g
                [] OTHER -> w]]

SummaryRows(columns) ==
    {SummaryRow(columns, region, g, w) :
        region \in {"North", "South", "Southeast"}, g \in {Num(400), Num(500)}, w \in {NaN, Num(450)}}

InitPS ==
    /\ prog = "pisa_standardize"
    /\ request \in [year : {2015, 2018}, mode : {"SIMPLE", "WEIGHTED", "BOTH"}, weighted : BOOLEAN,
                    user_concepts : {{}, {"Math"}, {"Global"}, {"Math", "Global"}, {"Count"}}]
    /\ header = SummaryColumns(request.year, request.mode, request.weighted)
    /\ rows \in {rs \in SeqsUpTo(SummaryRows(header), MaxRowsU) :
                    \A i, j \in 1..Len(rs) : i # j => rs[i].s["Region"] # rs[j].s["Region"]}
    /\ pc = "start"
    /\ resolved = << >>
    /\ pos = 0
    /\ chunk_aggs = << >>
    /\ df_final = << >>
    /\ written = << >>
    /\ log = << >>

NextPS == P_Standardize

SpecPS == InitPS /\ [][NextPS]_vars

\* the position of column c in the priority list
PriorityRank(c) == CHOOSE i \in 1..Len(priority) : priority[i] = c

\* the statistic the rows of a standardized table are sorted on, "" if none
PrimaryStatistic(columns) ==
    IF "Media_Geral" \in Range(columns) THEN "Media_Geral"
    ELSE IF "Media_Geral_Ponderada" \in Range(columns) THEN "Media_Geral_Ponderada"
    ELSE ""

\* C19: the columns of a standardized table are the kept columns, each once:
\* first those of the priority list (Ano, Regiao, UF, Media_Geral,
\* Media_Geral_Ponderada, N_Alunos) in the order of the list, then the others
\* in alphabetical order; its rows are those of the summary, descending on
\* Media_Geral when that column is kept, otherwise on Media_Geral_Ponderada
OutputOrdering ==
    (prog = "pisa_standardize" /\ pc = "done") =>
        LET out == df_final.columns
            kept == {c \in {StandardName(k) : k \in Range(header)} \cup {"Ano"} :
                        KeepCol(c, request.mode, request.user_concepts)}
            key == PrimaryStatistic(out)
        IN  /\ Range(out) = kept
            /\ \A i, j \in 1..Len(out) : i < j =>
                  /\ out[i] # out[j]
                  /\ out[j] \in Range(priority) =>
                        out[i] \in Range(priority) /\ PriorityRank(out[i]) < PriorityRank(out[j])
                  /\ out[i] \notin Range(priority) =>
                        out[j] \notin Range(priority) /\ LettersLess(Letters(out[i]), Letters(out[j]))
            /\ Len(df_final.rows) = Len(rows)
            /\ {df_final.rows[i].s["Regiao"] : i \in 1..Len(rows)}
                  = {region_trans(rows[i].s["Region"]) : i \in 1..Len(rows)}
            /\ key # "" =>
                  \A i, j \in 1..Len(df_final.rows) : i < j =>
                      LET a == df_final.rows[i].v[key]
                          b == df_final.rows[j].v[key]
                      IN  NotNa(b) => NotNa(a) /\ ~RLess(a, b)

\* a state table of 2015 with both methods standardized: the frame's columns
\* were reordered and its rows changed places
OutputOrderingWitness ==
    /\ prog = "pisa_standardize"
    /\ pc = "done"
    /\ request.year = 2015
    /\ request.mode = "BOTH"
    /\ request.weighted
    /\ request.user_concepts = {}
    /\ df_final.columns = <<"Ano", "Regiao", "UF", "Media_Geral", "Media_Geral_Ponderada", "N_Alunos",
                            "Ciencias", "Ciencias_Ponderada", "IBGE_CODE", "Leitura", "Leitura_Ponderada",
                            "Matematica", "Matematica_Ponderada">>
    /\ Len(rows) = 2
    /\ rows[1].v["Cognitive_Global_Mean"] = Num(400)
    /\ df_final.rows[1].v["Media_Geral"] = Num(500)
    /\ df_final.rows[1].s["Regiao"] = region_trans(rows[2].s["Region"])

(***************************************************************************)
(* Runs of the three unified pipelines under several column requests       *)
(***************************************************************************)
\* the column lists typed at the prompt of cog_02 (none, a misspelt one, a
\* selection with the key and the general mean, one without either)
UserColsU == {{}, {"Bogus"}, {"UF", "Media_Geral", "Matematica"}, {"Regiao", "Matematica", "Bogus"}}

\* the column lists typed at the prompt of cog_03
UserColsS == {{}, {"Bogus"}, {"UF", "Media_Geral", "Media_Mat"}, {"Regiao", "Media_Port", "N_Alunos"}}

\* the concept lists main of cog_01 can build
UserConcepts == {{}, {"Math"}, {"Global"}, {"Math", "Global"}, {"Count"}}

\* the rows of the ENEM files of these runs: final-year students who name
\* their school
RowsCU(hdr) == {r \in RowsU(hdr) : r.sc["CO_ESCOLA"] = Num(7) /\ r.sc["TP_ST_CONCLUSAO"] = Num(2)}

\* the rows of the SAEB files of these runs: known states, numeric scores,
\* students present
RowsCS(hdr) ==
    {r \in RowsS(hdr) :
        /\ r.uf # [sigla |-> "XX"]
        /\ \A p \in DOMAIN r.sc : r.sc[p] # TextCell
        /\ "NU_PRESENTES_9EF" \in DOMAIN r.sc => r.sc["NU_PRESENTES_9EF"] \in {Num(1), Num(3)}}

InitCU ==
    /\ prog = "enem_unified"
    /\ header \in {<<"SG_UF_PROVA", "CO_ESCOLA", "TP_ST_CONCLUSAO">> \o ScoreHeader,
                   <<"SG_UF_PROVA", "CO_ESCOLA", "TP_ST_CONCLUSAO", "NU_NOTA_MT">>}
    /\ rows \in SeqsUpTo(RowsCU(header), MaxRowsU)
    /\ request \in [filter_choice : {"BOTH"}, user_cols : UserColsU, year : {2015}]
    /\ pc = "start"
    /\ resolved = [col_map |-> << >>, modes |-> << >>]
    /\ pos = 0
    /\ chunk_aggs = << >>
    /\ df_final = << >>
    /\ written = << >>
    /\ log = << >>

InitCS ==
    /\ prog = "saeb_unified"
    /\ header \in {<<"ID_UF", "MEDIA_9EF_LP", "MEDIA_9EF_MT", "NU_PRESENTES_9EF">>,
                   <<"SG_UF", "MEDIA_EM_LP", "MEDIA_EM_MT">>}
    /\ rows \in SeqsUpTo(RowsCS(header), MaxRowsU)
    /\ request \in [filter_network : {"ALL"}, user_cols : UserColsS, year : {2019}]
    /\ pc = "start"
    /\ resolved = [col_adm |-> NoCol, col_uf |-> NoCol, grades |-> << >>, processed_grades |-> 0]
    /\ pos = 0
    /\ chunk_aggs = << >>
    /\ df_final = << >>
    /\ written = << >>
    /\ log = << >>

\* the PISA summaries of these runs: the modes that compute weighted means,
\* every mean present
InitCP ==
    /\ InitPS
    /\ request.mode # "SIMPLE"
    /\ \A i \in 1..Len(rows) : \A c \in DOMAIN rows[i].v : NotNa(rows[i].v[c])

InitC == InitCU \/ InitCS \/ InitCP

NextC ==
    \/ U_Start
    \/ U_BeginMode
    \/ U_ReadChunk
    \/ U_Finalize
    \/ S_Start
    \/ S_Grade
    \/ S_End
    \/ P_Standardize

SpecC == InitC /\ [][NextC]_vars

\* the columns of a table with at least one row
TableColumns(t) == DOMAIN t[1].s \cup DOMAIN t[1].v

\* row r cut down to the columns in C
RowOn(r, C) == [s |-> [c \in DOMAIN r.s \cap C |-> r.s[c]], v |-> [c \in DOMAIN r.v \cap C |-> r.v[c]]]

\* tables a and b have the same rows, in some order, on the columns they share
SameOnShared(a, b) ==
    /\ Len(a) = Len(b)
    /\ a # << >> =>
          LET C == TableColumns(a) \cap TableColumns(b)
          IN  \E f \in [1..Len(a) -> 1..Len(a)] :
                  /\ \A i, j \in 1..Len(a) : i # j => f[i] # f[j]
                  /\ \A i \in 1..Len(a) : RowOn(a[i], C) = RowOn(b[f[i]], C)

\* the ENEM table of the mode just written, had the request been user_cols
EnemTableFor(user_cols) ==
    LET cols == AggCols(resolved.col_map)
        mode == written[Len(written)].name[2]
    IN  SelectColumns(EnemFinalDf(EnemFullAgg(chunk_aggs, cols), cols, request.year, mode),
                      cols_to_keep(user_cols))

\* the request user_cols lets the ENEM run write its table
EnemWrites(user_cols) ==
    Range(cols_to_keep(user_cols))
        \subseteq {"UF", "Regiao", "Filtro", "Ano"} \cup {rename_dict(k) : k \in AggCols(resolved.col_map)}

\* the SAEB table of a grade, had the request been user_cols
SaebTableFor(grade, user_cols) ==
    SelectColumns(SaebTable(SaebAgg(SaebSub(rows, find_grade_columns(header, grade), resolved.col_adm,
                                            request.filter_network)),
                            request.year, grade, request.filter_network),
                  saeb_cols_to_keep(user_cols))

\* C20: the requested columns only cut the table - a table written under one
\* request has the rows of the table any other request gives for the same
\* input and filter, equal on every column both keep; its columns are among
\* the default ones, and all of them when the request names no known column
ColumnSelectionNeutral ==
    /\ (prog = "enem_unified" /\ pc \in {"mode", "done"} /\ log # << >> /\ log[Len(log)] = "OK") =>
          /\ df_final = written[Len(written)].table
          /\ TableColumns(df_final) \subseteq Range(all_cols_ptbr)
          /\ request.user_cols \cap Range(all_cols_ptbr) = {} =>
                TableColumns(df_final) = Range(all_cols_ptbr)
          /\ \A other \in UserColsU : EnemWrites(other) => SameOnShared(df_final, EnemTableFor(other))
    /\ (prog = "saeb_unified") =>
          \A k \in 1..Len(written) :
              LET t == written[k].table
              IN  /\ TableColumns(t) \subseteq Range(saeb_all_cols)
                  /\ request.user_cols \cap Range(saeb_all_cols) = {} =>
                        TableColumns(t) = Range(saeb_all_cols)
                  /\ \A other \in UserColsS : SameOnShared(t, SaebTableFor(written[k].name[2], other))
    /\ (prog = "pisa_standardize" /\ pc = "done") =>
          LET all == apply_standardization(header, rows, request.year, request.mode, {})
              matched == {c \in Range(all.columns) :
                            \E concept_key \in request.user_concepts : StrIn(concept_matcher(concept_key), c)}
              table(d) == SeqMap(LAMBDA r : RowOn(r, Range(d.columns)), d.rows)
          IN  /\ Range(df_final.columns) \subseteq Range(all.columns)
              /\ matched = {} => Range(df_final.columns) = Range(all.columns)
              /\ \A other \in UserConcepts :
                    SameOnShared(table(df_final),
                                 table(apply_standardization(header, rows, request.year, request.mode, other)))

\* an ENEM run asked for Regiao and Matematica only wrote a table of two
\* states whose means differ, and a run asked for a misspelt column wrote
\* every column
ColumnSelectionWitness ==
    /\ prog = "enem_unified"
    /\ pc = "done"
    /\ Len(written) = 2
    /\ request.user_cols = {"Regiao", "Matematica", "Bogus"}
    /\ TableColumns(df_final) = {"Regiao", "Matematica"}
    /\ Len(df_final) = 2
    /\ df_final[1].v["Matematica"] # df_final[2].v["Matematica"]
    /\ Len(EnemTableFor({})) = 2
    /\ TableColumns(EnemTableFor({"Bogus"})) = Range(all_cols_ptbr)

(***************************************************************************)
(* Streams that stop early: the chunk loops of                             *)
(* src/cog/04_process_enem_historical.py and                               *)
(* src/cog/cog_02_process_unified_enem_pypeline.py under a failing reader  *)
(***************************************************************************)
\* a wrong handler: the reader raises and the chunks folded so far are
\* finalized and exported
H_ReadFails_exports_partial ==
    /\ prog = "enem_historical"
    /\ pc = "stream"
    /\ pos < Len(rows)
    /\ pc' = "done"
    /\ log' = Append(log, "CRITICAL ERROR")
    /\ IF chunk_aggs = << >>
       THEN UNCHANGED <<df_final, written>>
       ELSE /\ df_final' = Finalize(Consolidate(chunk_aggs, CurrentScores(resolved.score_cols)),
                                    CurrentScores(resolved.score_cols))
            /\ written' = Append(written, [name |-> "enem_table", table |-> df_final'])
    /\ UNCHANGED <<prog, header, rows, request, resolved, pos, chunk_aggs>>

\* the reader raises on the next chunk (for chunk in reader): the exception
\* leaves the with block and is printed by the handler of process_year
H_ReadFails ==
    /\ prog = "enem_historical"
    /\ pc = "stream"
    /\ pos < Len(rows)
    /\ pc' = "done"
    /\ log' = Append(log, "CRITICAL ERROR")
    /\ UNCHANGED <<prog, header, rows, request, resolved, pos, chunk_aggs, df_final, written>>

\* the reader of the current mode raises on the next chunk: the exception
\* leaves the loop over modes and is printed by the handler of process
U_ReadFails ==
    /\ prog = "enem_unified"
    /\ pc = "stream"
    /\ pos < Len(rows)
    /\ pc' = "done"
    /\ log' = Append(log, "ERRO")
    /\ UNCHANGED <<prog, header, rows, request, resolved, pos, chunk_aggs, df_final, written>>

InitFH == Init /\ header = <<"SG_UF_RESIDENCIA", "NU_NOTA_MT", "NU_NOTA_LC">>

InitFU ==
    /\ InitU
    /\ header \in {<<"SG_UF_PROVA", "CO_ESCOLA", "TP_ST_CONCLUSAO">> \o ScoreHeader,
                   <<"CO_ESCOLA", "TP_ST_CONCLUSAO">> \o ScoreHeader}
    /\ request.filter_choice = "BOTH"

InitF == InitFH \/ InitFU

NextF ==
    \/ H_Start
    \/ H_ReadChunk
    \/ H_ReadFails
    \/ H_Consolidate
    \/ H_Export
    \/ U_Start
    \/ U_BeginMode
    \/ U_ReadChunk
    \/ U_ReadFails
    \/ U_Finalize

SpecF == InitF /\ [][NextF]_vars

\* C21: a table is written only in a step taken with the whole stream read
\* and folded, and a run whose stream stopped early or whose fold raised has
\* written no table for that file and criterion
IncompleteNeverFinalized ==
    /\ [][written' # written =>
            /\ pos = Len(rows)
            /\ pos' = pos
            /\ Len(written') = Len(written) + 1
            /\ prog = "enem_unified" => chunk_aggs # << >> /\ chunk_aggs' = chunk_aggs]_vars
    /\ [](prog = "enem_historical" =>
            /\ written # << >> => pos = Len(rows) /\ chunk_aggs # << >> /\ pc = "done"
            /\ (pc = "done" /\ pos < Len(rows)) => written = << >>)
    /\ [](prog = "enem_unified" /\ pc = "done" /\ log # << >> /\ log[Len(log)] = "ERRO" =>
            \A k \in 1..Len(written) : written[k].name[2] # Head(resolved.modes))

\* the reader of the historical ENEM run failed after one chunk was folded:
\* the partial sums exist and nothing was written
IncompleteNeverFinalizedWitness ==
    /\ prog = "enem_historical"
    /\ pc = "done"
    /\ 0 < pos
    /\ pos < Len(rows)
    /\ chunk_aggs # << >>
    /\ written = << >>
    /\ log = <<"CRITICAL ERROR">>

\* C22: the audit's health check - every table written by the historical SAEB
\* run has no missing cell, and the Public_Share of every UF is present and
\* lies between 0 and 1
AuditInvariant ==
    prog = "saeb_historical" =>
        \A k \in 1..Len(written) :
            \A i \in 1..Len(written[k].table) :
                LET row == written[k].table[i]
                IN  /\ \A c \in DOMAIN row.v : NotNa(row.v[c])
                    /\ row.s["UF"] # "NaN"
                    /\ ~RLess(row.v["Public_Share"], Num(0))
                    /\ ~RLess(Num(1), row.v["Public_Share"])

(***************************************************************************)
(* The DataGuard protocol of src/ind/lib/safeguard.py as run by            *)
(* process_year (src/cog/04_process_enem_historical.py) and by             *)
(* load_and_process (src/cog/01_process_saeb_2023_uf_region.py), and as    *)
(* called directly with either value of strict                             *)
(***************************************************************************)
MaxRowsG == 2

\* the arguments each caller passes to check_range and
\* check_historical_consistency
GuardCall(caller) ==
    IF caller = "load_and_process"
    THEN [columns |-> {"Math_Mean", "Language_Mean"}, min_val |-> 200, max_val |-> 400,
          score_col |-> "SAEB_General"]
    ELSE [columns |-> {"Math", "Language"}, min_val |-> 350, max_val |-> 800,
          score_col |-> "Mean_General"]

\* guard = DataGuard(df, name): the import of the module may have failed, and
\* then the caller skips the audit
G_Construct ==
    /\ prog = "dataguard"
    /\ pc = "start"
    /\ \E DataGuard \in BOOLEAN :
          /\ DataGuard \/ request.caller # "DataGuard"
          /\ IF DataGuard
             THEN /\ resolved' = [errors |-> {}, warnings |-> {}, result |-> "none"]
                  /\ log' = Append(log, "AUDIT")
                  /\ pc' = "check_range"
             ELSE /\ pc' = "export"
                  /\ UNCHANGED <<resolved, log>>
    /\ UNCHANGED <<prog, header, rows, request, pos, chunk_aggs, df_final, written>>

\* guard.check_range(columns, min_val, max_val)
G_CheckRange ==
    /\ prog = "dataguard"
    /\ pc = "check_range"
    /\ LET call == GuardCall(request.caller)
       IN  resolved' = [resolved EXCEPT
                          !.errors = @ \cup check_range(df_final, call.columns, call.min_val, call.max_val)]
    /\ pc' = "check_consistency"
    /\ UNCHANGED <<prog, header, rows, request, pos, chunk_aggs, df_final, written, log>>

\* guard.check_historical_consistency(score_col, 'UF'): a table without the
\* score column makes groupby raise, which the method records as a warning
G_CheckConsistency ==
    /\ prog = "dataguard"
    /\ pc = "check_consistency"
    /\ LET score_col == GuardCall(request.caller).score_col
       IN  IF score_col \notin ColumnsOf(df_final)
           THEN resolved' = [resolved EXCEPT !.warnings = @ \cup {"consistency not verified"}]
           ELSE IF check_historical_consistency(df_final, score_col)
           THEN resolved' = [resolved EXCEPT !.errors = @ \cup {"CONSISTENCY"}]
           ELSE resolved' = resolved
    /\ pc' = "validate"
    /\ UNCHANGED <<prog, header, rows, request, pos, chunk_aggs, df_final, written, log>>

\* guard.validate(strict): a raise leaves the caller's try block, so its
\* export is not reached; a direct call ends with the returned value
G_Validate ==
    /\ prog = "dataguard"
    /\ pc = "validate"
    /\ LET result == validate(resolved.errors, request.strict)
       IN  /\ resolved' = [resolved EXCEPT !.result = result]
           /\ log' = log \o (IF resolved.errors # {} THEN <<"FALHA CRITICA">>
                             ELSE (IF resolved.warnings # {} THEN <<"Warnings">> ELSE << >>)
                                    \o <<"aproved">>)
                         \o (IF result = "raise" /\ request.caller # "DataGuard"
                             THEN <<"CRITICAL ERROR">> ELSE << >>)
           /\ pc' = IF result = "raise" \/ request.caller = "DataGuard" THEN "done" ELSE "export"
    /\ UNCHANGED <<prog, header, rows, request, pos, chunk_aggs, df_final, written>>

\* df.to_csv / df.to_excel of the caller
G_Export ==
    /\ prog = "dataguard"
    /\ pc = "export"
    /\ written' = Append(written, [name |-> request.caller, table |-> df_final])
    /\ log' = Append(log, "SUCCESS")
    /\ pc' = "done"
    /\ UNCHANGED <<prog, header, rows, request, resolved, pos, chunk_aggs, df_final>>

\* the columns of the table a caller audits; a direct call may audit a table
\* without the score column
GuardColumns(request_) ==
    IF request_.caller = "DataGuard"
    THEN {{"Math", "Language", "Mean_General"}, {"Math", "Language"}}
    ELSE {GuardCall(request_.caller).columns \cup {GuardCall(request_.caller).score_col}}

\* the values of a column: inside the expected scale, below it and above it
GuardCells(c) ==
    CASE c \in {"Math", "Math_Mean"} -> {Num(100), Num(380)}
      [] c \in {"Language", "Language_Mean"} -> {Num(390), Num(900)}
      [] OTHER -> {Num(360), Num(399)}

GuardTables(cols) ==
    {t \in SeqsUpTo([UF : {"AM", "SC", "SP"}, Region : {"Region"},
                     v : {f \in [cols -> {Num(100), Num(360), Num(380), Num(390), Num(399), Num(900)}] :
                               \A c \in cols : f[c] \in GuardCells(c)}], MaxRowsG) :
        /\ t # << >>
        /\ \A i, j \in 1..Len(t) : i < j => t[i].UF # t[j].UF}

InitG ==
    /\ prog = "dataguard"
    /\ request \in {r \in [caller : {"process_year", "load_and_process", "DataGuard"}, strict : BOOLEAN] :
                       r.caller # "DataGuard" => r.strict}
    /\ \E cols \in GuardColumns(request) : df_final \in GuardTables(cols)
    /\ header = << >>
    /\ rows = << >>
    /\ pc = "start"
    /\ resolved = [errors |-> {}, warnings |-> {}, result |-> "none"]
    /\ pos = 0
    /\ chunk_aggs = << >>
    /\ written = << >>
    /\ log = << >>

NextG ==
    \/ G_Construct
    \/ G_CheckRange
    \/ G_CheckConsistency
    \/ G_Validate
    \/ G_Export

SpecG == InitG /\ [][NextG]_vars

\* the audit of the current run is over: validate has returned or raised
Validated == prog = "dataguard" /\ resolved.result # "none"

\* C23: once validate was called, recorded errors under strict=True mean a
\* raise and no export, now or later; no recorded error (warnings or not)
\* means validate returned True and the caller's run ends with its table
\* written; recorded errors under strict=False mean the value False
GuardGatesExport ==
    Validated =>
        /\ (resolved.errors # {} /\ request.strict) =>
              resolved.result = "raise" /\ written = << >> /\ pc = "done"
        /\ resolved.errors = {} =>
              /\ resolved.result = "true"
              /\ request.caller # "DataGuard" => pc \in {"export", "done"}
              /\ (request.caller # "DataGuard" /\ pc = "done") =>
                    written = <<[name |-> request.caller, table |-> df_final]>>
        /\ (resolved.errors # {} /\ ~request.strict) =>
              resolved.result = "false" /\ "CRITICAL ERROR" \notin Range(log)

\* the ENEM table failed the range check and the regional canary, validate
\* raised and the run ended without a file
GuardGatesExportWitness ==
    /\ Validated
    /\ request.caller = "process_year"
    /\ resolved.errors = {"Math", "Language", "CONSISTENCY"}
    /\ resolved.result = "raise"
    /\ pc = "done"
    /\ written = << >>

(***************************************************************************)
(* The two SAEB pipelines (src/cog/01_process_saeb_historical.py and       *)
(* src/cog/cog_03_process_unified_saeb_pypeline.py) over school files      *)
(* with each kind of network column                                        *)
(***************************************************************************)
MaxRowsN == 2

\* school files with a public flag, a dependency code under three names
HeadersN ==
    {<<"ID_UF", col, "MEDIA_9EF_LP", "MEDIA_9EF_MT">> :
        col \in {"IN_PUBLICA", "ID_DEPENDENCIA_ADM", "ID_REDE", "DEPENDENCIA_ADM"}}

\* the cells of the network column: empty, text, and the codes 0 to 5
NetworkCells == {NaN, TextCell, Num(0), Num(1), Num(2), Num(3), Num(4), Num(5)}

RowsN(hdr) ==
    {[uf |-> [code |-> 13],
      sc |-> [p \in Range(hdr) \ {"ID_UF"} |->
                CASE p = "MEDIA_9EF_LP" -> Num(200)
                  [] p = "MEDIA_9EF_MT" -> Num(300)
                  [] OTHER -> c]] : c \in NetworkCells}

InitNHist ==
    /\ prog = "saeb_historical"
    /\ header \in HeadersN
    /\ rows \in SeqsUpTo(RowsN(header), MaxRowsN)
    /\ request \in [filter_network : {"ALL", "PUBLIC", "PRIVATE"}, year : {2019}]
    /\ pc = "start"
    /\ resolved = [col_adm |-> NoCol, col_uf |-> NoCol, grades |-> << >>]
    /\ pos = 0
    /\ chunk_aggs = << >>
    /\ df_final = << >>
    /\ written = << >>
    /\ log = << >>

InitNUnified ==
    /\ prog = "saeb_unified"
    /\ header \in HeadersN
    /\ rows \in SeqsUpTo(RowsN(header), MaxRowsN)
    /\ request \in [filter_network : {"ALL", "PUBLIC", "PRIVATE"}, user_cols : {{}}, year : {2019}]
    /\ pc = "start"
    /\ resolved = [col_adm |-> NoCol, col_uf |-> NoCol, grades |-> << >>, processed_grades |-> 0]
    /\ pos = 0
    /\ chunk_aggs = << >>
    /\ df_final = << >>
    /\ written = << >>
    /\ log = << >>

InitN == InitNHist \/ InitNUnified

NextN ==
    \/ B_Start
    \/ B_Grade
    \/ S_Start
    \/ S_Grade
    \/ S_End

SpecN == InitN /\ [][NextN]_vars

\* the network column of the file of the current run (the second name of
\* its header) and the value a row holds there
NetworkColumn == header[2]

NetworkValue(r) == r.sc[NetworkColumn]

\* public and private rows as the hybrid rule states them
RulePublic(r) ==
    IF NetworkColumn = "IN_PUBLICA" THEN NetworkValue(r) = Num(1)
    ELSE NetworkValue(r) \in {Num(1), Num(2), Num(3)}

RulePrivate(r) ==
    IF NetworkColumn = "IN_PUBLICA" THEN NetworkValue(r) # Num(1)
    ELSE NetworkValue(r) = Num(4)

\* C24: in the historical SAEB run the loaded frame flags a row 1 when the
\* hybrid rule makes it public, 0 when private and leaves it unknown when
\* neither; under PUBLIC the frame holds exactly the public rows of the file,
\* under PRIVATE exactly the private ones, under ALL every row
HybridNetworkLogic ==
    (prog = "saeb_historical" /\ header \in HeadersN /\ pc # "start") =>
        LET expected == SelectSeq(rows, LAMBDA r :
                            CASE request.filter_network = "PUBLIC" -> RulePublic(r)
                              [] request.filter_network = "PRIVATE" -> RulePrivate(r)
                              [] OTHER -> TRUE)
        IN  /\ resolved.col_adm = NetworkColumn
            /\ Len(chunk_aggs) = Len(expected)
            /\ \A i \in 1..Len(expected) :
                  /\ chunk_aggs[i].sc = expected[i].sc
                  /\ chunk_aggs[i].Is_Public =
                        (IF RulePublic(expected[i]) THEN Num(1)
                         ELSE IF RulePrivate(expected[i]) THEN Num(0)
                         ELSE NaN)

\* a file with a dependency column found by the substring fallback, read
\* under PRIVATE: of a school with code 5 and one with code 4 only the second
\* is in the frame
HybridNetworkLogicWitness ==
    /\ prog = "saeb_historical"
    /\ pc = "done"
    /\ header[2] = "DEPENDENCIA_ADM"
    /\ request.filter_network = "PRIVATE"
    /\ Len(rows) = 2
    /\ rows[1].sc["DEPENDENCIA_ADM"] = Num(5)
    /\ rows[2].sc["DEPENDENCIA_ADM"] = Num(4)
    /\ Len(chunk_aggs) = 1
    /\ chunk_aggs[1].Is_Public = Num(0)
    /\ Len(written) = 1

\* C30: the two SAEB pipelines classify schools identically - for a public
\* flag holding 0 or 1 and for a dependency code 1 to 4, the historical run
\* keeps a row under PUBLIC, and under PRIVATE, exactly when the unified run
\* keeps it
SamePipelinesClassification ==
    (prog = "saeb_historical" /\ header \in HeadersN /\ pc # "start"
        /\ request.filter_network \in {"PUBLIC", "PRIVATE"}
        /\ \A i \in 1..Len(rows) :
              NetworkValue(rows[i]) \in (IF NetworkColumn = "IN_PUBLICA" THEN {Num(0), Num(1)}
                                         ELSE {Num(1), Num(2), Num(3), Num(4)})) =>
        LET unified == SelectSeq(rows, LAMBDA r : SaebKeep(r, SaebColAdm(header), request.filter_network))
        IN  /\ Len(chunk_aggs) = Len(unified)
            /\ \A i \in 1..Len(unified) : chunk_aggs[i].sc = unified[i].sc

(***************************************************************************)
(* The delimiter sniffers on the characters of the first line:             *)
(* SaebPipeline.detect_separator of src/cog/01_process_saeb_historical.py  *)
(* and the inline test of src/cog/cog_02_process_unified_enem_pypeline.py  *)
(***************************************************************************)
MaxLine == 4

RECURSIVE Count(_, _)
\* line.count(ch)
Count(line, ch) ==
    IF line = << >> THEN 0
    ELSE (IF Head(line) = ch THEN 1 ELSE 0) + Count(Tail(line), ch)

\* a wrong choice: a tie goes to the semicolon
SepOfLineTieSemicolon(line) == IF Count(line, ";") >= Count(line, ",") THEN ";" ELSE ","

\* ';' if line.count(';') > line.count(',') else ','
SepOfLine(line) == IF Count(line, ";") > Count(line, ",") THEN ";" ELSE ","

\* sep = self.detect_separator(f): the bare except returns ';'
Q_DetectSeparator ==
    /\ prog = "saeb_sniff"
    /\ pc = "start"
    /\ \E fails \in BOOLEAN :
          resolved' = [sep |-> IF fails THEN ";" ELSE SepOfLine(header), failed |-> fails]
    /\ pos' = 0
    /\ pc' = "sniffed"
    /\ UNCHANGED <<prog, header, rows, request, chunk_aggs, df_final, written, log>>

\* first_line = f.readline().decode('latin1'); sep = ...; f.seek(0): a
\* failing read ends process() in its handler
Q_EnemSniff ==
    /\ prog = "enem_sniff"
    /\ pc = "start"
    /\ \E fails \in BOOLEAN :
          IF fails
          THEN /\ resolved' = [sep |-> "", failed |-> TRUE]
               /\ log' = Append(log, "ERRO")
               /\ pc' = "done"
               /\ pos' = pos
          ELSE /\ resolved' = [sep |-> SepOfLine(header), failed |-> FALSE]
               /\ log' = log
               /\ pc' = "sniffed"
               /\ pos' = 0
    /\ UNCHANGED <<prog, header, rows, request, chunk_aggs, df_final, written>>

\* the first lines of the files: up to MaxLine characters, each a letter, a
\* semicolon or a comma
InitQ ==
    /\ prog \in {"saeb_sniff", "enem_sniff"}
    /\ header \in SeqsUpTo({"a", ";", ","}, MaxLine)
    /\ rows = << >>
    /\ request = "none"
    /\ pc = "start"
    /\ resolved = [sep |-> "", failed |-> FALSE]
    /\ pos = 0
    /\ chunk_aggs = << >>
    /\ df_final = << >>
    /\ written = << >>
    /\ log = << >>

NextQ == Q_DetectSeparator \/ Q_EnemSniff

SpecQ == InitQ /\ [][NextQ]_vars

\* the number of places of the first line that hold character ch
Occurrences(ch) == Cardinality({i \in 1..Len(header) : header[i] = ch})

\* C25: a sniffer that read the first line returns the semicolon when the
\* line holds more semicolons than commas, the comma when it holds more
\* commas, and the comma when it holds as many of each (none included)
DelimiterChoice ==
    (prog \in {"saeb_sniff", "enem_sniff"} /\ pc = "sniffed" /\ ~resolved.failed) =>
        /\ Occurrences(";") > Occurrences(",") => resolved.sep = ";"
        /\ Occurrences(",") > Occurrences(";") => resolved.sep = ","
        /\ Occurrences(",") = Occurrences(";") => resolved.sep = ","

\* a first line with one semicolon and one comma was sniffed as comma
\* separated
DelimiterChoiceWitness ==
    /\ prog = "saeb_sniff"
    /\ pc = "sniffed"
    /\ ~resolved.failed
    /\ Occurrences(";") = 1
    /\ Occurrences(",") = 1
    /\ resolved.sep = ","

(***************************************************************************)
(* processar_trienio of                                                    *)
(* src/cog/legacy/legacy_scripts/01_extrair_trienio_enem.py (one year)     *)
(***************************************************************************)
cols_enem == <<"SG_UF_PROVA", "NU_NOTA_CN", "NU_NOTA_CH", "NU_NOTA_LC", "NU_NOTA_MT", "NU_NOTA_REDACAO">>

NotasT == {"NU_NOTA_CN", "NU_NOTA_CH", "NU_NOTA_LC", "NU_NOTA_MT", "NU_NOTA_REDACAO"}

map_nomes(c) ==
    CASE c = "NU_NOTA_LC" -> "linguagem"
      [] c = "NU_NOTA_CH" -> "humanas"
      [] c = "NU_NOTA_CN" -> "natureza"
      [] c = "NU_NOTA_MT" -> "matematica"
      [] c = "NU_NOTA_REDACAO" -> "redacao"
      [] OTHER -> c

\* chunk.dropna(subset=[the five scores])
DropnaT(chunk) == SelectSeq(chunk, LAMBDA r : \A c \in NotasT : NotNa(r.sc[c]))

RECURSIVE Concat(_)
\* pd.concat(chunks_list)
Concat(chunks_list) ==
    IF chunks_list = << >> THEN << >> ELSE Head(chunks_list) \o Concat(Tail(chunks_list))

\* the table by UF: the mean of each score, their mean, and their sample
\* standard deviation (kept as the variance it is the square root of),
\* renamed and sorted by the mean
TabelaUF(df_ano_completo) ==
    LET of(g) == SelectSeq(df_ano_completo, LAMBDA r : r.uf = g)
        m(g, c) == MeanSkipNa(SeqMap(LAMBDA r : r.sc[c], of(g)))
        scores(g) == SeqMap(LAMBDA c : m(g, c), Tail(cols_enem))
        media(g) == MeanSkipNa(scores(g))
        sumsq(g) == SumSkipNa(SeqMap(LAMBDA x : RMul(x, x), scores(g)))
        variance(g) == RDiv(RAdd(sumsq(g), RMul(Num(-5), RMul(media(g), media(g)))), Num(4))
    IN  SortDesc(SeqMap(LAMBDA g :
                          [s |-> [c \in {"SG_UF_PROVA"} |-> g],
                           v |-> [c \in {map_nomes(k) : k \in NotasT} \cup {"media", "desvio_padrao"} |->
                                     CASE c = "media" -> media(g)
                                       [] c = "desvio_padrao" -> variance(g)
                                       [] OTHER -> m(g, CHOOSE k \in NotasT : map_nomes(k) = c)]],
                        SortedKeys({df_ano_completo[i].uf : i \in 1..Len(df_ano_completo)})),
                 "media")

\* one iteration of the chunk loop: the reader hands over the next chunksize
\* rows (fewer at the end of the file); the rows with every score present are
\* appended to chunks_list
T_ReadChunk ==
    /\ prog = "enem_trienio"
    /\ pc = "stream"
    /\ pos < Len(rows)
    /\ LET n == IF Len(rows) - pos < request.chunksize THEN Len(rows) - pos ELSE request.chunksize
           chunk == DropnaT(SubSeq(rows, pos + 1, pos + n))
       IN  /\ pos' = pos + n
           /\ chunk_aggs' = IF chunk # << >> THEN Append(chunk_aggs, chunk) ELSE chunk_aggs
    /\ UNCHANGED <<prog, header, rows, request, pc, resolved, df_final, written, log>>

\* after the loop: a year without valid rows is skipped, otherwise the
\* chunks are concatenated and the table by UF is written
T_Finalize ==
    /\ prog = "enem_trienio"
    /\ pc = "stream"
    /\ pos = Len(rows)
    /\ IF chunk_aggs = << >>
       THEN /\ log' = Append(log, "aviso sem dados validos")
            /\ UNCHANGED <<df_final, written>>
       ELSE /\ df_final' = TabelaUF(Concat(chunk_aggs))
            /\ written' = Append(written, [name |-> "tabela_enem", table |-> df_final'])
            /\ log' = log
    /\ pc' = "done"
    /\ UNCHANGED <<prog, header, rows, request, resolved, pos, chunk_aggs>>

CellsT(c) ==
    CASE c = "NU_NOTA_MT" -> {NaN, Num(400), Num(600)}
      [] c = "NU_NOTA_CN" -> {NaN, Num(500)}
      [] OTHER -> {Num(500)}

RowsT ==
    {[uf |-> u, sc |-> f] :
        u \in Range(UFS),
        f \in {f \in [NotasT -> {NaN, Num(400), Num(500), Num(600)}] : \A c \in NotasT : f[c] \in CellsT(c)}}

InitT ==
    /\ prog = "enem_trienio"
    /\ header = cols_enem
    /\ rows \in SeqsUpTo(RowsT, MaxRowsU)
    /\ request \in [chunksize : {1, 2}]
    /\ pc = "stream"
    /\ resolved = << >>
    /\ pos = 0
    /\ chunk_aggs = << >>
    /\ df_final = << >>
    /\ written = << >>
    /\ log = << >>

InitM == InitFH \/ InitT

NextM ==
    \/ H_Start
    \/ H_ReadChunk
    \/ H_Consolidate
    \/ H_Export
    \/ T_ReadChunk
    \/ T_Finalize

SpecM == InitM /\ [][NextM]_vars

\* the raw input rows the run holds between two chunks: none in
\* process_year, whose list holds per-state sums and counts, and the rows of
\* chunks_list in processar_trienio
RawRowsHeld ==
    IF prog = "enem_trienio" THEN Len(Concat(chunk_aggs)) ELSE 0

\* C26: bounded row retention - the raw rows held never exceed one chunk, and
\* the rows read so far never exceed the rows of the file
BoundedRowRetention ==
    /\ prog = "enem_trienio" => RawRowsHeld <= request.chunksize
    /\ prog = "enem_historical" =>
          \A k \in 1..Len(chunk_aggs) : DOMAIN chunk_aggs[k] \subseteq Range(UFS) \cup {""}
    /\ pos <= Len(rows)

(***************************************************************************)
(* EnemPipeline.process of src/ind/cog_03_nacional_extract_enem.py: the    *)
(* unified ENEM pipeline with the NONE filter and a guard on an empty      *)
(* filtered result                                                         *)
(***************************************************************************)
NacionalModes(filter_choice, col_map) ==
    (IF filter_choice \in {"STRICT", "BOTH"} /\ "STATUS" \in Mapped(col_map) THEN <<"STRICT">> ELSE << >>)
        \o (IF filter_choice \in {"PROXY", "BOTH"} /\ "SCHOOL_ID" \in Mapped(col_map) THEN <<"PROXY">> ELSE << >>)
        \o (IF filter_choice = "NONE" THEN <<"NONE">> ELSE << >>)

NacionalKeep(r, col_map, mode) ==
    CASE mode = "STRICT" -> Cell(r, col_map, "STATUS") = Num(2)
      [] mode = "PROXY" -> NotNa(Cell(r, col_map, "SCHOOL_ID")) /\ Cell(r, col_map, "SCHOOL_ID") # Num(0)
      [] OTHER -> TRUE

\* "ALL_CANDIDATES" if mode == 'NONE' else f"{mode}_3EM"
filter_tag(mode) == IF mode = "NONE" THEN "ALL_CANDIDATES" ELSE FiltroTag(mode)

\* the table of one mode from its stored chunk aggregates
NacionalTable(aggs, col_map, year, mode, user_cols) ==
    LET cols == AggCols(col_map)
        df == EnemFinalDf(EnemFullAgg(aggs, cols), cols, year, mode)
    IN  SelectColumns(SeqMap(LAMBDA r : [r EXCEPT !.s["Filtro"] = filter_tag(mode)], df),
                      cols_to_keep(user_cols))

I_Start ==
    /\ prog = "enem_nacional"
    /\ pc = "start"
    /\ LET col_map == EnemColMap(header)
           modes == NacionalModes(request.filter_choice, col_map)
       IN  /\ resolved' = [col_map |-> col_map, modes |-> modes]
           /\ IF modes = << >>
              THEN pc' = "done" /\ log' = Append(log, "ABORTADO")
              ELSE pc' = "mode" /\ log' = log
    /\ UNCHANGED <<prog, header, rows, request, pos, chunk_aggs, df_final, written>>

I_BeginMode ==
    /\ prog = "enem_nacional"
    /\ pc = "mode"
    /\ pos' = 0
    /\ chunk_aggs' = << >>
    /\ pc' = "stream"
    /\ UNCHANGED <<prog, header, rows, request, resolved, df_final, written, log>>

I_ReadChunk ==
    /\ prog = "enem_nacional"
    /\ pc = "stream"
    /\ \E n \in 1..(Len(rows) - pos) :
          LET chunk == SubSeq(rows, pos + 1, pos + n)
              kept == SelectSeq(chunk, LAMBDA r : NacionalKeep(r, resolved.col_map, Head(resolved.modes)))
          IN  /\ pos' = pos + n
              /\ IF kept = << >>
                 THEN UNCHANGED <<chunk_aggs, pc, log>>
                 ELSE IF "UF" \notin Mapped(resolved.col_map)
                 THEN /\ pc' = "done"
                      /\ log' = Append(log, "ERRO CRITICO")
                      /\ chunk_aggs' = chunk_aggs
                 ELSE /\ chunk_aggs' = Append(chunk_aggs, EnemChunkAgg(kept, resolved.col_map))
                      /\ UNCHANGED <<pc, log>>
    /\ UNCHANGED <<prog, header, rows, request, resolved, df_final, written>>

\* the stream of the current mode is exhausted: a mode that kept nothing is
\* skipped with a warning, the others are consolidated and written
I_Finalize ==
    /\ prog = "enem_nacional"
    /\ pc = "stream"
    /\ pos = Len(rows)
    /\ LET mode == Head(resolved.modes)
           keep == cols_to_keep(request.user_cols)
           have == {"UF", "Regiao", "Filtro", "Ano"} \cup {rename_dict(k) : k \in AggCols(resolved.col_map)}
           next_pc == IF Tail(resolved.modes) = << >> THEN "done" ELSE "mode"
       IN  IF chunk_aggs = << >>
           THEN /\ log' = Append(log, "AVISO nenhum dado restou")
                /\ resolved' = [resolved EXCEPT !.modes = Tail(@)]
                /\ pc' = next_pc
                /\ UNCHANGED <<df_final, written>>
           ELSE IF ~(Range(keep) \subseteq have)
           THEN /\ pc' = "done"
                /\ log' = Append(log, "ERRO CRITICO")
                /\ UNCHANGED <<resolved, df_final, written>>
           ELSE /\ df_final' = NacionalTable(chunk_aggs, resolved.col_map, request.year, mode, request.user_cols)
                /\ written' = Append(written, [name |-> <<"enem_table", mode>>, table |-> df_final'])
                /\ log' = Append(log, "OK")
                /\ resolved' = [resolved EXCEPT !.modes = Tail(@)]
                /\ pc' = next_pc
    /\ UNCHANGED <<prog, header, rows, request, pos, chunk_aggs>>

HeadersI ==
    {<<"SG_UF_PROVA", "CO_ESCOLA", "TP_ST_CONCLUSAO">> \o ScoreHeader,
     <<"SG_UF_PROVA", "TP_ST_CONCLUSAO">> \o ScoreHeader,
     <<"CO_ESCOLA", "TP_ST_CONCLUSAO">> \o ScoreHeader,
     <<"SG_UF_PROVA", "CO_ESCOLA", "TP_ST_CONCLUSAO", "NU_NOTA_MT">>}

CellsI(p) ==
    CASE p = "TP_ST_CONCLUSAO" -> {Num(1), Num(2)}
      [] p = "CO_ESCOLA" -> {NaN, Num(0), Num(7)}
      [] p = "NU_NOTA_MT" -> {NaN, Num(600)}
      [] OTHER -> {Num(500)}

RowsI(hdr) ==
    LET num == Range(hdr) \ {"SG_UF_PROVA"}
    IN  {[uf |-> u, sc |-> f] :
            u \in (IF HasUF(hdr) THEN Range(UFS) ELSE {""}),
            f \in {f \in [num -> {NaN, Num(0), Num(1), Num(2), Num(7), Num(500), Num(600)}] :
                      \A p \in num : f[p] \in CellsI(p)}}

InitI ==
    /\ prog \in {"enem_unified", "enem_nacional"}
    /\ header \in HeadersI
    /\ rows \in SeqsUpTo(RowsI(header), MaxRowsU)
    /\ request \in [filter_choice : {"STRICT", "PROXY", "BOTH", "NONE"}, user_cols : {{}}, year : {2015}]
    /\ prog = "enem_unified" => request.filter_choice # "NONE"
    /\ pc = "start"
    /\ resolved = [col_map |-> << >>, modes |-> << >>]
    /\ pos = 0
    /\ chunk_aggs = << >>
    /\ df_final = << >>
    /\ written = << >>
    /\ log = << >>

NextI ==
    \/ U_Start
    \/ U_BeginMode
    \/ U_ReadChunk
    \/ U_Finalize
    \/ I_Start
    \/ I_BeginMode
    \/ I_ReadChunk
    \/ I_Finalize

SpecI == InitI /\ [][NextI]_vars

\* the filter of criterion m in the running pipeline
KeepOf(r, m) ==
    IF prog = "enem_nacional" THEN NacionalKeep(r, EnemColMap(header), m)
    ELSE EnemKeep(r, EnemColMap(header), m)

\* a run requesting criterion m alone writes a table: the criterion's column
\* is there, some row passes the filter, the rows can be grouped by state and
\* the selected columns exist
AloneWrites(m) ==
    /\ EnemWrites(request.user_cols)
    /\ m = "STRICT" => "STATUS" \in Mapped(EnemColMap(header))
    /\ m = "PROXY" => "SCHOOL_ID" \in Mapped(EnemColMap(header))
    /\ \E i \in 1..Len(rows) : KeepOf(rows[i], m)
    /\ "UF" \in Mapped(EnemColMap(header))

\* the table of that run: the rows passing the filter, read in one chunk
AloneTable(m) ==
    LET kept == SelectSeq(rows, LAMBDA r : KeepOf(r, m))
    IN  NacionalTable(<<EnemChunkAgg(kept, EnemColMap(header))>>, EnemColMap(header),
                      request.year, m, request.user_cols)

Criteria ==
    IF request.filter_choice = "BOTH" THEN {"STRICT", "PROXY"} ELSE {request.filter_choice}

TablesOf(m) == {written[i].table : i \in {i \in 1..Len(written) : written[i].name = <<"enem_table", m>>}}

\* C27: criteria are independent - when a run is over, each requested
\* criterion has exactly the table a run requesting it alone produces, and
\* none when that run produces none
CriteriaIndependent ==
    pc = "done" /\ prog \in {"enem_unified", "enem_nacional"} =>
        \A m \in Criteria :
            TablesOf(m) = IF AloneWrites(m) THEN {AloneTable(m)} ELSE {}

(***************************************************************************)
(* The choice of the archive member: process_year of                       *)
(* src/cog/04_process_enem_historical.py and EnemPipeline.get_largest_csv  *)
(* of src/cog/cog_02_process_unified_enem_pypeline.py, under the loops     *)
(* over years of the two scripts                                           *)
(***************************************************************************)
MaxMembers == 2

MemberNames ==
    {"DADOS/MICRODADOS_ENEM_2015.csv", "DADOS/ITENS_PROVA_2015.csv",
     "DADOS/MICRODADOS_ITENS_2015.csv", "LEIA-ME.txt", "DADOS/QUEST.CSV"}

\* f.endswith('.csv')
EndsWithCsv(f) ==
    f \in {"DADOS/MICRODADOS_ENEM_2015.csv", "DADOS/ITENS_PROVA_2015.csv", "DADOS/MICRODADOS_ITENS_2015.csv"}

\* f.lower().endswith('.csv')
LowerEndsWithCsv(f) == EndsWithCsv(f) \/ f = "DADOS/QUEST.CSV"

\* 'MICRODADOS' in f
HasMICRODADOS(f) == f \in {"DADOS/MICRODADOS_ENEM_2015.csv", "DADOS/MICRODADOS_ITENS_2015.csv"}

\* 'ITENS' in f
HasITENS(f) == f \in {"DADOS/ITENS_PROVA_2015.csv", "DADOS/MICRODADOS_ITENS_2015.csv"}

\* the positions of namelist satisfying a test, in archive order
Positions(namelist, Test(_)) == {i \in 1..Len(namelist) : Test(namelist[i].name)}

\* sorted(csv_files, key=file_size, reverse=True)[0]: the first member, in
\* archive order, among those of the largest size
LargestFirst(namelist, idx) ==
    LET big == {i \in idx : \A j \in idx : namelist[j].file_size <= namelist[i].file_size}
    IN  namelist[CHOOSE i \in big : \A j \in big : i <= j].name

\* csv_file of process_year, "None" when the archive has no .csv member
csv_file(namelist) ==
    LET named == Positions(namelist, LAMBDA f : EndsWithCsv(f) /\ HasMICRODADOS(f) /\ ~HasITENS(f))
        csv_files == Positions(namelist, EndsWithCsv)
    IN  IF named # {} THEN namelist[CHOOSE i \in named : \A j \in named : i <= j].name
        ELSE IF csv_files = {} THEN "None"
        ELSE LargestFirst(namelist, csv_files)

get_largest_csv(namelist) ==
    LET csv_files == Positions(namelist, LowerEndsWithCsv)
    IN  IF csv_files = {} THEN "None" ELSE LargestFirst(namelist, csv_files)

\* one year of the loop of __main__ / main: the member is chosen and, when
\* there is one, read into the year's table (the member is taken to be a
\* well-formed data file); process_year returns silently
\* without a member, EnemPipeline.process fails in z.open(None) and its
\* handler prints the error; the loop goes on with the next year
A_ProcessFile ==
    /\ prog \in {"process_year", "EnemPipeline"}
    /\ pc = "file"
    /\ LET namelist == rows[pos + 1]
           member == IF prog = "process_year" THEN csv_file(namelist) ELSE get_largest_csv(namelist)
       IN  /\ resolved' = Append(resolved, member)
           /\ IF member = "None"
              THEN /\ written' = written
                   /\ log' = IF prog = "EnemPipeline" THEN Append(log, "ERRO") ELSE log
              ELSE /\ written' = Append(written, [name |-> <<"enem_table", pos + 1>>, table |-> member])
                   /\ log' = Append(log, "OK")
    /\ pos' = pos + 1
    /\ pc' = IF pos + 1 = Len(rows) THEN "done" ELSE "file"
    /\ UNCHANGED <<prog, header, rows, request, chunk_aggs, df_final>>

Archives ==
    {a \in SeqsUpTo([name : MemberNames, file_size : {1, 2}], MaxMembers) :
        \A i, j \in 1..Len(a) : i # j => a[i].name # a[j].name}

InitA ==
    /\ prog \in {"process_year", "EnemPipeline"}
    /\ header = << >>
    /\ rows \in [1..2 -> Archives]
    /\ request = [years |-> <<2015, 2018>>]
    /\ pc = "file"
    /\ resolved = << >>
    /\ pos = 0
    /\ chunk_aggs = << >>
    /\ df_final = << >>
    /\ written = << >>
    /\ log = << >>

NextA == A_ProcessFile

SpecA == InitA /\ [][NextA]_vars

\* the .csv members of an archive as the running pipeline tests them
CsvMembers(namelist) ==
    IF prog = "process_year" THEN Positions(namelist, EndsWithCsv)
    ELSE Positions(namelist, LowerEndsWithCsv)

\* the members the rule of the claim allows for an archive: the first .csv
\* member with the token that is not an items file, else a .csv member of
\* the largest size, else none
Allowed(namelist) ==
    LET csv == CsvMembers(namelist)
        named == {i \in csv : HasMICRODADOS(namelist[i].name) /\ ~HasITENS(namelist[i].name)}
    IN  IF named # {} THEN {namelist[CHOOSE i \in named : \A j \in named : i <= j].name}
        ELSE IF csv # {}
        THEN {namelist[i].name : i \in {i \in csv : \A j \in csv : namelist[j].file_size <= namelist[i].file_size}}
        ELSE {"None"}

\* C28: archive member selection - every processed file got the member the
\* rule allows from its own archive alone, no table when there is no such
\* member, and a table only from the chosen member
ArchiveMemberSelection ==
    prog \in {"process_year", "EnemPipeline"} =>
        /\ Len(resolved) = pos
        /\ \A i \in 1..pos :
              /\ resolved[i] \in Allowed(rows[i])
              /\ resolved[i] = "None" => \A k \in 1..Len(written) : written[k].name # <<"enem_table", i>>
              /\ \A k \in 1..Len(written) :
                    written[k].name = <<"enem_table", i>> => written[k].table = resolved[i]

\* C29: the standardizer is a pure transform - the call of
\* _apply_standardization leaves the caller's summary (its columns and its
\* rows, the Region labels included) as it was
StandardizerPure ==
    [][(prog = "pisa_standardize" /\ pc = "start" /\ pc' = "done") => (header' = header /\ rows' = rows)]_vars

====
